---------------------------- MODULE Spec2Model ----------------------------
(***************************************************************************)
(* Model of the construction-management backend (backend/server.py).       *)
(*                                                                         *)
(* The state is the document store (one sequence per collection, in store  *)
(* order), the wall clock, the response of the last request handled, and   *)
(* the requests suspended at an await of a store call (pending).  Every    *)
(* route handler is one action; the handlers whose store calls the claims  *)
(* interleave are also given call by call.  Monetary amounts and           *)
(* percentages are integers (the code's floats restricted to values on     *)
(* which its arithmetic is exact); uuid4 identifiers are the next unused   *)
(* name of a per-collection list of identifier strings.                    *)
(***************************************************************************)
EXTENDS Integers, Sequences, FiniteSets, TLC

VARIABLES users, projects, workers, expenses, incomes, workdays, now, resp,
          pending

store == <<users, projects, workers, expenses, incomes, workdays>>
vars  == <<users, projects, workers, expenses, incomes, workdays, now, resp,
           pending>>

(***************************************************************************)
(* Values                                                                  *)
(***************************************************************************)
\* Python's None (an Optional field left out).
None == "<None>"

\* Truthiness of an Optional[str]: None and the empty string are falsy.
Truthy(s) == s # None /\ s # ""

\* to_list(1000): the cap of every multi-document read.
ListCap == 1000

JWT_EXPIRATION_HOURS == 24

\* uuid4 identifiers, one supply per collection; the n-th insert gets the n-th.
UserIds    == <<"u1", "u2", "u3", "u4">>
ProjectIds == <<"p1", "p2", "p3", "p4", "p5", "p6">>
WorkerIds  == <<"w1", "w2", "w3", "w4", "w5", "w6", "w7">>

\* An identifier no record carries (a stale or mistyped reference).
DanglingProject == "p-none"
DanglingWorker  == "w-none"

(***************************************************************************)
(* Store primitives (motor / MongoDB)                                      *)
(***************************************************************************)
\* Mutant: the length is not passed on, every document is returned.
ToList_Uncapped(cursor, n) == cursor

\* cursor.to_list(n): the first n documents of the cursor.
ToList(cursor, n) == IF Len(cursor) <= n THEN cursor ELSE SubSeq(cursor, 1, n)

\* A filter document is a function from field names to conditions; {} is
\* the filter without fields.
EmptyFilter == [k \in {} |-> None]

\* Whether a document matches a filter document: every field of the filter
\* holds of it.  {"date": {"$gte": v}} compares, {"$or": [f, g]} asks for one
\* of the filters listed, any other field asks for equality.
RECURSIVE MatchesFilter(_, _)
MatchesFilter(doc, filter) ==
    \A k \in DOMAIN filter :
        IF k = "$or"
        THEN \E i \in DOMAIN filter[k] : MatchesFilter(doc, filter[k][i])
        ELSE IF k = "date"
        THEN doc[k] >= filter[k]["$gte"]
        ELSE doc[k] = filter[k]

\* collection.find(filter): the matching documents in store order.
Find(coll, filter) == SelectSeq(coll, LAMBDA doc : MatchesFilter(doc, filter))

\* collection.find_one(filter): the first matching document as <<doc>>, or
\* <<>> for None (no document matches).
FindOne(coll, filter) ==
    LET hits == Find(coll, filter)
    IN  IF hits = <<>> THEN <<>> ELSE <<Head(hits)>>

\* collection.insert_one(doc)
InsertOne(coll, doc) == Append(coll, doc)

\* Mutant: the matching documents are deleted and nothing is put back.
ReplaceOne_Deletes(coll, filter, doc) ==
    SelectSeq(coll, LAMBDA d : ~ MatchesFilter(d, filter))

\* collection.replace_one(filter, doc): replaces the first matching document.
ReplaceOne(coll, filter, doc) ==
    IF \E i \in DOMAIN coll : MatchesFilter(coll[i], filter)
    THEN LET k == CHOOSE i \in DOMAIN coll :
                    /\ MatchesFilter(coll[i], filter)
                    /\ \A j \in DOMAIN coll :
                          MatchesFilter(coll[j], filter) => i <= j
         IN  [coll EXCEPT ![k] = doc]
    ELSE coll

\* next((x for x in items if x[key] == value), None): the first such item as
\* <<x>>, or <<>> for None.
NextWhere(items, key, value) ==
    LET hits == SelectSeq(items, LAMBDA x : x[key] = value)
    IN  IF hits = <<>> THEN <<>> ELSE <<Head(hits)>>

\* sum(ns), starting at 0.  Python folds from the left; on integers every
\* grouping gives the same total, and the halving keeps the evaluation shallow
\* on the long sequences a full collection yields.
RECURSIVE Sum(_)
Sum(ns) ==
    IF ns = <<>> THEN 0
    ELSE IF Len(ns) = 1 THEN ns[1]
    ELSE LET h == Len(ns) \div 2
         IN  Sum(SubSeq(ns, 1, h)) + Sum(SubSeq(ns, h + 1, Len(ns)))

Range(s) == { s[i] : i \in DOMAIN s }

(***************************************************************************)
(* Clock and calendar (datetime.utcnow, datetime.replace)                  *)
(***************************************************************************)
\* The clock counts hours.  The calendar is scaled down: a month has
\* DaysPerMonth days and a year MonthsPerYear months.
DaysPerMonth  == 2
MonthsPerYear == 2
HoursPerMonth == 24 * DaysPerMonth
HoursPerYear  == HoursPerMonth * MonthsPerYear

\* Mutant: the month's start keeps the day and hour of now.
StartOfMonth_NotTruncated(t) == t

\* now.replace(day=1, hour=0, minute=0, second=0, microsecond=0)
StartOfMonth(t) == t - (t % HoursPerMonth)

\* now.replace(month=1, day=1, hour=0, minute=0, second=0, microsecond=0)
StartOfYear(t) == t - (t % HoursPerYear)

(***************************************************************************)
(* Utility functions                                                       *)
(***************************************************************************)
\* bcrypt.hashpw: one-way; the model keeps what checkpw can compare.
hash_password(password) == [bcrypt |-> password]

\* bcrypt.checkpw: whether the hash was made from the password.
verify_password(password, hashed) == hashed = [bcrypt |-> password]

\* jwt.encode of the payload with its expiry: to_encode = data.copy(),
\* to_encode.update({"exp": expire}).  The token is the record of its claims;
\* only the holder of JWT_SECRET can make one.
create_access_token(data) == [exp |-> now + JWT_EXPIRATION_HOURS] @@ data

\* A bearer string that is no token signed with JWT_SECRET (not a JWT at
\* all, or one signed with another key).
InvalidToken(text) == [invalid |-> text]

\* Mutant: the expiry is not verified.
decode_token_IgnoresExpiry(token) ==
    IF "invalid" \in DOMAIN token
    THEN [status |-> 500, detail |-> "Internal Server Error"]
    ELSE [status |-> 200, payload |-> token]

\* decode_token: the claims of the token, or the error the request ends
\* with.  jwt.decode raises ExpiredSignatureError once exp <= now, answered
\* 401.  For a token it cannot verify it raises DecodeError (or
\* InvalidSignatureError), which the first except clause does not match;
\* the second names jwt.JWTError, an attribute the jwt module imported on
\* line 13 (PyJWT: module-level encode, decode, ExpiredSignatureError) does
\* not have, so evaluating the clause raises AttributeError, which is no
\* HTTPException: the request ends with 500.
decode_token(token) ==
    IF "invalid" \in DOMAIN token
    THEN [status |-> 500, detail |-> "Internal Server Error"]
    ELSE IF token.exp <= now
    THEN [status |-> 401, detail |-> "Token expired"]
    ELSE [status |-> 200, payload |-> token]

\* get_current_user run on a credential: the stored user the token names,
\* or the error the request ends with.
Authenticate(token) ==
    LET decoded == decode_token(token)
    IN  IF decoded.status # 200 THEN decoded
        ELSE IF "user_id" \notin DOMAIN decoded.payload
        THEN [status |-> 401, detail |-> "Invalid token"]
        ELSE LET user == FindOne(users, [id |-> decoded.payload.user_id])
             IN  IF user = <<>>
                 THEN [status |-> 401, detail |-> "User not found"]
                 ELSE [status |-> 200, user |-> user[1]]

\* The user get_current_user returns for a credential as <<user>>, or <<>>
\* when it raises.
AuthenticatedUser(token) ==
    LET auth == Authenticate(token)
    IN  IF auth.status = 200 THEN <<auth.user>> ELSE <<>>

\* What Depends(get_current_user) can hand a handler: the stored user a
\* valid credential names.
get_current_user == Range(users)

(***************************************************************************)
(* Documents (the pydantic models, with their defaults)                    *)
(***************************************************************************)
\* User(**user_data.dict(exclude={"password"}), password_hash=...)
User(user_data) ==
    [id            |-> UserIds[Len(users) + 1],
     username      |-> user_data.username,
     email         |-> user_data.email,
     password_hash |-> hash_password(user_data.password),
     created_at    |-> now]

\* Project(**project_data.dict(), id=id, user_id=user_id): the fields of the
\* payload model, the id and the owner, and the defaults of the fields the
\* payload model does not have.
Project(project_data, id, user_id) ==
    [id                  |-> id,
     user_id             |-> user_id,
     progress_percentage |-> 0,
     status              |-> "active",
     created_at          |-> now] @@ project_data

\* Worker(**worker_data.dict(), user_id=user_id)
Worker(worker_data, user_id) ==
    [id         |-> WorkerIds[Len(workers) + 1],
     user_id    |-> user_id,
     created_at |-> now] @@ worker_data

\* Expense(**expense_data.dict(), user_id=user_id)
Expense(expense_data, user_id) ==
    [id      |-> Len(expenses) + 1,
     user_id |-> user_id,
     date    |-> now] @@ expense_data

\* Income(**income_data.dict(), user_id=user_id)
Income(income_data, user_id) ==
    [id      |-> Len(incomes) + 1,
     user_id |-> user_id,
     date    |-> now] @@ income_data

\* WorkDay(**workday_data.dict(), user_id=user_id)
WorkDay(workday_data, user_id) ==
    [id      |-> Len(workdays) + 1,
     user_id |-> user_id,
     date    |-> now] @@ workday_data

\* The response of a handler: HTTP status and body.
Response(op, caller, args, status, body) ==
    [op |-> op, caller |-> caller, args |-> args, status |-> status, body |-> body]

\* A route with current_user = Depends(get_current_user), called with a
\* bearer token the dependency refuses: the dependency runs first, and when
\* it raises, the request ends with its error and the handler never runs.
Depends(op, token) ==
    LET auth == Authenticate(token)
    IN  /\ auth.status # 200
        /\ resp' = Response(op, None, None, auth.status, auth.detail)
        /\ UNCHANGED <<store, now, pending>>

(***************************************************************************)
(* Authentication routes                                                   *)
(***************************************************************************)
\* Mutant: only the username is looked up.
register_UsernameOnly(user_data) ==
    LET existing_user == FindOne(users, [username |-> user_data.username])
        user == User(user_data)
    IN  /\ IF existing_user # <<>>
           THEN /\ resp' = Response("register", None, user_data, 400,
                                    "Username or email already exists")
                /\ UNCHANGED users
           ELSE /\ users' = InsertOne(users, user)
                /\ resp' = Response("register", None, user_data, 200,
                       [access_token |-> create_access_token([user_id |-> user.id]),
                        user         |-> user])
        /\ UNCHANGED <<projects, workers, expenses, incomes, workdays,
                       now, pending>>

\* POST /auth/register
register(user_data) ==
    LET existing_user == FindOne(users, "$or" :> <<
            [username |-> user_data.username],
            IF Truthy(user_data.email)
            THEN [email |-> user_data.email]
            ELSE [username |-> user_data.username] >>)
        user == User(user_data)
    IN  /\ IF existing_user # <<>>
           THEN /\ resp' = Response("register", None, user_data, 400,
                                    "Username or email already exists")
                /\ UNCHANGED users
           ELSE /\ users' = InsertOne(users, user)
                /\ resp' = Response("register", None, user_data, 200,
                       [access_token |-> create_access_token([user_id |-> user.id]),
                        user         |-> user])
        /\ UNCHANGED <<projects, workers, expenses, incomes, workdays,
                       now, pending>>

\* POST /auth/login
login(credentials) ==
    LET user == FindOne(users, "$or" :> <<
            [username |-> credentials.username_or_email],
            [email |-> credentials.username_or_email] >>)
    IN  /\ resp' =
              IF user = <<>>
                   \/ ~ verify_password(credentials.password,
                                        user[1].password_hash)
              THEN Response("login", None, credentials, 401,
                            "Invalid credentials")
              ELSE Response("login", None, credentials, 200,
                       [access_token |->
                            create_access_token([user_id |-> user[1].id]),
                        user |-> user[1]])
        /\ UNCHANGED <<store, now, pending>>

(***************************************************************************)
(* Project routes                                                          *)
(***************************************************************************)
\* POST /projects
create_project(current_user, project_data) ==
    LET project == Project(project_data, ProjectIds[Len(projects) + 1],
                           current_user.id)
    IN  /\ projects' = InsertOne(projects, project)
        /\ resp' = Response("create_project", current_user.id, project_data,
                            200, project)
        /\ UNCHANGED <<users, workers, expenses, incomes, workdays,
                       now, pending>>

\* Mutant: the listing forgets the owner filter.
get_projects_AllOwners(current_user) ==
    /\ resp' = Response("get_projects", current_user.id, None, 200,
                        ToList(projects, ListCap))
    /\ UNCHANGED <<store, now, pending>>

\* GET /projects
get_projects(current_user) ==
    /\ resp' = Response("get_projects", current_user.id, None, 200,
           ToList(Find(projects, [user_id |-> current_user.id]), ListCap))
    /\ UNCHANGED <<store, now, pending>>

\* GET /projects/{project_id}
get_project(current_user, project_id) ==
    LET project == FindOne(projects, [id |-> project_id,
                                      user_id |-> current_user.id])
    IN  /\ resp' = IF project = <<>>
                   THEN Response("get_project", current_user.id, project_id,
                                 404, "Project not found")
                   ELSE Response("get_project", current_user.id, project_id,
                                 200, project[1])
        /\ UNCHANGED <<store, now, pending>>

\* Mutant: the update looks the project up by id alone.
update_project_AnyOwner(current_user, project_id, project_data) ==
    LET project == FindOne(projects, [id |-> project_id])
        updated_project == Project(project_data, project_id, current_user.id)
    IN  /\ IF project = <<>>
           THEN /\ resp' = Response("update_project", current_user.id,
                                    project_id, 404, "Project not found")
                /\ UNCHANGED projects
           ELSE /\ projects' = ReplaceOne(projects, [id |-> project_id],
                                          updated_project)
                /\ resp' = Response("update_project", current_user.id,
                                    project_id, 200, updated_project)
        /\ UNCHANGED <<users, workers, expenses, incomes, workdays,
                       now, pending>>

\* Mutant: the update merges into the stored project and keeps its
\* created_at.
update_project_KeepsCreatedAt(current_user, project_id, project_data) ==
    LET project == FindOne(projects, [id |-> project_id,
                                      user_id |-> current_user.id])
        updated_project ==
            [Project(project_data, project_id, current_user.id)
                EXCEPT !.created_at = project[1].created_at]
    IN  /\ IF project = <<>>
           THEN /\ resp' = Response("update_project", current_user.id,
                                    project_id, 404, "Project not found")
                /\ UNCHANGED projects
           ELSE /\ projects' = ReplaceOne(projects, [id |-> project_id],
                                          updated_project)
                /\ resp' = Response("update_project", current_user.id,
                                    project_id, 200, updated_project)
        /\ UNCHANGED <<users, workers, expenses, incomes, workdays,
                       now, pending>>

\* PUT /projects/{project_id}
update_project(current_user, project_id, project_data) ==
    LET project == FindOne(projects, [id |-> project_id,
                                      user_id |-> current_user.id])
        updated_project == Project(project_data, project_id, current_user.id)
    IN  /\ IF project = <<>>
           THEN /\ resp' = Response("update_project", current_user.id,
                                    project_id, 404, "Project not found")
                /\ UNCHANGED projects
           ELSE /\ projects' = ReplaceOne(projects, [id |-> project_id],
                                          updated_project)
                /\ resp' = Response("update_project", current_user.id,
                                    project_id, 200, updated_project)
        /\ UNCHANGED <<users, workers, expenses, incomes, workdays,
                       now, pending>>

(***************************************************************************)
(* Worker, expense, income and work day routes                             *)
(***************************************************************************)
\* POST /workers
create_worker(current_user, worker_data) ==
    LET worker == Worker(worker_data, current_user.id)
    IN  /\ workers' = InsertOne(workers, worker)
        /\ resp' = Response("create_worker", current_user.id, worker_data,
                            200, worker)
        /\ UNCHANGED <<users, projects, expenses, incomes, workdays,
                       now, pending>>

\* GET /workers
get_workers(current_user) ==
    /\ resp' = Response("get_workers", current_user.id, None, 200,
           ToList(Find(workers, [user_id |-> current_user.id]), ListCap))
    /\ UNCHANGED <<store, now, pending>>

\* POST /expenses
create_expense(current_user, expense_data) ==
    LET expense == Expense(expense_data, current_user.id)
    IN  /\ expenses' = InsertOne(expenses, expense)
        /\ resp' = Response("create_expense", current_user.id, expense_data,
                            200, expense)
        /\ UNCHANGED <<users, projects, workers, incomes, workdays,
                       now, pending>>

\* GET /expenses
get_expenses(current_user) ==
    /\ resp' = Response("get_expenses", current_user.id, None, 200,
           ToList(Find(expenses, [user_id |-> current_user.id]), ListCap))
    /\ UNCHANGED <<store, now, pending>>

\* POST /incomes
create_income(current_user, income_data) ==
    LET income == Income(income_data, current_user.id)
    IN  /\ incomes' = InsertOne(incomes, income)
        /\ resp' = Response("create_income", current_user.id, income_data,
                            200, income)
        /\ UNCHANGED <<users, projects, workers, expenses, workdays,
                       now, pending>>

\* GET /incomes
get_incomes(current_user) ==
    /\ resp' = Response("get_incomes", current_user.id, None, 200,
           ToList(Find(incomes, [user_id |-> current_user.id]), ListCap))
    /\ UNCHANGED <<store, now, pending>>

\* Mutant: logging a work day adds its share to the progress stored on the
\* caller's project.
create_workday_UpdatesProgress(current_user, workday_data) ==
    LET workday == WorkDay(workday_data, current_user.id)
    IN  /\ workdays' = InsertOne(workdays, workday)
        /\ projects' = [k \in DOMAIN projects |->
              IF /\ projects[k].id = workday.project_id
                 /\ projects[k].user_id = current_user.id
              THEN [projects[k] EXCEPT !.progress_percentage =
                       @ + workday.work_percentage]
              ELSE projects[k]]
        /\ resp' = Response("create_workday", current_user.id, workday_data,
                            200, workday)
        /\ UNCHANGED <<users, workers, expenses, incomes, now, pending>>

\* POST /workdays
create_workday(current_user, workday_data) ==
    LET workday == WorkDay(workday_data, current_user.id)
    IN  /\ workdays' = InsertOne(workdays, workday)
        /\ resp' = Response("create_workday", current_user.id, workday_data,
                            200, workday)
        /\ UNCHANGED <<users, projects, workers, expenses, incomes,
                       now, pending>>

\* GET /workdays
get_workdays(current_user) ==
    /\ resp' = Response("get_workdays", current_user.id, None, 200,
           ToList(Find(workdays, [user_id |-> current_user.id]), ListCap))
    /\ UNCHANGED <<store, now, pending>>

(***************************************************************************)
(* Reports routes                                                          *)
(***************************************************************************)
\* date_filter: {"date": {"$gte": start_date}} for "monthly" and "yearly",
\* {} otherwise.
DateFilter(period) ==
    IF period = "monthly"
    THEN "date" :> ("$gte" :> StartOfMonth(now))
    ELSE IF period = "yearly"
    THEN "date" :> ("$gte" :> StartOfYear(now))
    ELSE EmptyFilter

\* Mutant: the project filter is never built.
ProjectFilter_Dropped(project_id) == EmptyFilter

\* project_filter: {"project_id": project_id} when project_id is truthy.
ProjectFilter(project_id) ==
    IF Truthy(project_id) THEN [project_id |-> project_id] ELSE EmptyFilter

\* Mutant: a report restricted to a project is not restricted to the
\* caller.
ReportFilter_ProjectOnly(current_user, period, project_id) ==
    IF Truthy(project_id)
    THEN DateFilter(period) @@ ProjectFilter(project_id)
    ELSE [user_id |-> current_user.id] @@ DateFilter(period)

\* expense_filter, income_filter and workday_filter (the same document):
\* {"user_id": current_user["id"], **date_filter, **project_filter}
ReportFilter(current_user, period, project_id) ==
    [user_id |-> current_user.id] @@ DateFilter(period)
        @@ ProjectFilter(project_id)

\* What one worker id of a work day adds to worker_payments: the amount of
\* the first worker of the list carrying the id, when paid daily.
WorkerPayment(worker_list, worker_id) ==
    LET worker == NextWhere(worker_list, "id", worker_id)
    IN  IF worker # <<>> /\ worker[1].payment_type = "daily"
        THEN worker[1].payment_amount
        ELSE 0

\* The inner loop: for worker_id in workday["workers"].
WorkdayPayments(worker_list, workday) ==
    Sum([k \in DOMAIN workday.workers |->
            WorkerPayment(worker_list, workday.workers[k])])

\* The outer loop: for workday in workdays.
WorkerPayments(workday_list, worker_list) ==
    Sum([k \in DOMAIN workday_list |->
            WorkdayPayments(worker_list, workday_list[k])])

TotalExpenses(expense_list) ==
    Sum([k \in DOMAIN expense_list |-> expense_list[k].amount])

TotalIncomes(income_list) ==
    Sum([k \in DOMAIN income_list |-> income_list[k].amount_before_tax])

\* Mutant: the worker payments are added back instead of deducted.
Profit_PaymentsAdded(total_incomes, total_expenses, worker_payments) ==
    total_incomes - total_expenses + worker_payments

Profit(total_incomes, total_expenses, worker_payments) ==
    total_incomes - total_expenses - worker_payments

\* The body of GET /reports/financial.
FinancialReport(current_user, period, project_id) ==
    LET expense_filter == ReportFilter(current_user, period, project_id)
        income_filter  == ReportFilter(current_user, period, project_id)
        workday_filter == ReportFilter(current_user, period, project_id)
        expense_list == ToList(Find(expenses, expense_filter), ListCap)
        income_list  == ToList(Find(incomes, income_filter), ListCap)
        workday_list == ToList(Find(workdays, workday_filter), ListCap)
        worker_list  == ToList(Find(workers, [user_id |-> current_user.id]),
                               ListCap)
        total_expenses  == TotalExpenses(expense_list)
        total_incomes   == TotalIncomes(income_list)
        worker_payments == WorkerPayments(workday_list, worker_list)
    IN  [total_incomes   |-> total_incomes,
         total_expenses  |-> total_expenses,
         worker_payments |-> worker_payments,
         profit          |-> Profit(total_incomes, total_expenses, worker_payments),
         period          |-> period,
         project_id      |-> project_id]

\* GET /reports/financial
get_financial_report(current_user, period, project_id) ==
    /\ resp' = Response("get_financial_report", current_user.id,
                        [period |-> period, project_id |-> project_id], 200,
                        FinancialReport(current_user, period, project_id))
    /\ UNCHANGED <<store, now, pending>>

\* Mutant: the section's weight is left out of the share.
WorkDone_Unweighted(project, workday) ==
    LET section == NextWhere(project.work_sections, "name",
                             workday.work_section)
    IN  IF section # <<>> THEN workday.work_percentage ELSE 0

\* What one work day adds to total_work_done: its share of the first work
\* section bearing its section name, nothing when no section does.
WorkDone(project, workday) ==
    LET section == NextWhere(project.work_sections, "name",
                             workday.work_section)
    IN  IF section # <<>>
        THEN (workday.work_percentage * section[1].percentage) \div 100
        ELSE 0

\* total_work_done, accumulated only when the project has work sections.
TotalWorkDone(project, project_workdays) ==
    IF project.work_sections # <<>>
    THEN Sum([k \in DOMAIN project_workdays |->
                 WorkDone(project, project_workdays[k])])
    ELSE 0

\* Mutant: the cap is forgotten.
ProgressPercentage_Uncapped(total_work_done) == total_work_done

\* min(total_work_done, 100)
ProgressPercentage(total_work_done) ==
    IF total_work_done < 100 THEN total_work_done ELSE 100

\* Mutant: the per-project reads forget the project.
ProjectRecords_AnyProject(coll, current_user, project) ==
    ToList(Find(coll, [user_id |-> current_user.id]), ListCap)

\* The per-project reads of the summary:
\* find({"user_id": ..., "project_id": project["id"]}).to_list(1000)
ProjectRecords(coll, current_user, project) ==
    ToList(Find(coll, [user_id |-> current_user.id,
                       project_id |-> project.id]), ListCap)

\* One entry of GET /reports/projects.
ProjectSummary(current_user, project) ==
    LET project_expenses == ProjectRecords(expenses, current_user, project)
        project_incomes  == ProjectRecords(incomes, current_user, project)
        project_workdays == ProjectRecords(workdays, current_user, project)
        worker_list      == ToList(Find(workers,
                                [user_id |-> current_user.id]), ListCap)
        worker_payments  == WorkerPayments(project_workdays, worker_list)
        total_expenses   == TotalExpenses(project_expenses)
        total_incomes    == TotalIncomes(project_incomes)
    IN  [project_id          |-> project.id,
         project_name        |-> project.name,
         total_amount        |-> project.total_amount,
         total_expenses      |-> total_expenses,
         total_incomes       |-> total_incomes,
         worker_payments     |-> worker_payments,
         profit              |-> Profit(total_incomes, total_expenses, worker_payments),
         progress_percentage |->
             ProgressPercentage(TotalWorkDone(project, project_workdays)),
         status              |-> project.status]

\* The body of GET /reports/projects: one summary per project of the caller.
ProjectSummaries(current_user) ==
    LET project_list == ToList(Find(projects,
                            [user_id |-> current_user.id]), ListCap)
    IN  [k \in DOMAIN project_list |->
            ProjectSummary(current_user, project_list[k])]

\* Mutant: the summary writes the progress it computed back to the
\* caller's projects.
get_projects_financial_summary_StoresProgress(current_user) ==
    /\ resp' = Response("get_projects_financial_summary", current_user.id,
                        None, 200, ProjectSummaries(current_user))
    /\ projects' = [k \in DOMAIN projects |->
          IF projects[k].user_id = current_user.id
          THEN [projects[k] EXCEPT !.progress_percentage =
                   ProjectSummary(current_user, projects[k]).progress_percentage]
          ELSE projects[k]]
    /\ UNCHANGED <<users, workers, expenses, incomes, workdays,
                   now, pending>>

\* GET /reports/projects
get_projects_financial_summary(current_user) ==
    /\ resp' = Response("get_projects_financial_summary", current_user.id,
                        None, 200, ProjectSummaries(current_user))
    /\ UNCHANGED <<store, now, pending>>

(***************************************************************************)
(* Handlers call by call                                                   *)
(*                                                                         *)
(* A handler runs until it awaits a store call; the store executes the     *)
(* call, and the handler resumes with the result when the event loop next  *)
(* schedules it.  Other requests run in between.  A request suspended at   *)
(* an await is an entry of pending: the handler, its arguments and what it *)
(* has read so far; the action named after a store call executes that call *)
(* and the handler's code up to the next one.                              *)
(***************************************************************************)
\* A sequence without its k-th entry.
RemoveAt(seq, k) == SubSeq(seq, 1, k - 1) \o SubSeq(seq, k + 1, Len(seq))

\* register: existing_user = await db.users.find_one(...)
register_find_one(user_data) ==
    LET existing_user == FindOne(users, "$or" :> <<
            [username |-> user_data.username],
            IF Truthy(user_data.email)
            THEN [email |-> user_data.email]
            ELSE [username |-> user_data.username] >>)
    IN  /\ pending' = Append(pending,
               [op |-> "register", user_data |-> user_data,
                existing_user |-> existing_user])
        /\ UNCHANGED <<store, now, resp>>

\* register: the check of existing_user, then
\* await db.users.insert_one(user.dict()) and the response.
register_insert_one(k) ==
    LET request == pending[k]
        user == User(request.user_data)
    IN  /\ request.op = "register"
        /\ IF request.existing_user # <<>>
           THEN /\ resp' = Response("register", None, request.user_data, 400,
                                    "Username or email already exists")
                /\ UNCHANGED users
           ELSE /\ users' = InsertOne(users, user)
                /\ resp' = Response("register", None, request.user_data, 200,
                       [access_token |->
                            create_access_token([user_id |-> user.id]),
                        user |-> user])
        /\ pending' = RemoveAt(pending, k)
        /\ UNCHANGED <<projects, workers, expenses, incomes, workdays, now>>

\* update_project: project = await db.projects.find_one(...)
update_project_find_one(current_user, project_id, project_data) ==
    LET project == FindOne(projects, [id |-> project_id,
                                      user_id |-> current_user.id])
    IN  /\ pending' = Append(pending,
               [op |-> "update_project", current_user |-> current_user,
                project_id |-> project_id, project_data |-> project_data,
                project |-> project])
        /\ UNCHANGED <<store, now, resp>>

\* Mutant: the update patches the stored document with the fields of the
\* payload that differ from the document it read.
update_project_replace_one_Patches(k) ==
    LET request == pending[k]
        read == request.project[1]
        stored == FindOne(projects, [id |-> request.project_id])[1]
        updated_project ==
            [f \in DOMAIN stored |->
                IF f \in DOMAIN request.project_data
                     /\ request.project_data[f] # read[f]
                THEN request.project_data[f]
                ELSE stored[f]]
    IN  /\ request.op = "update_project"
        /\ IF request.project = <<>>
           THEN /\ resp' = Response("update_project", request.current_user.id,
                                    request.project_id, 404,
                                    "Project not found")
                /\ UNCHANGED projects
           ELSE /\ projects' = ReplaceOne(projects,
                                          [id |-> request.project_id],
                                          updated_project)
                /\ resp' = Response("update_project", request.current_user.id,
                                    request.project_id, 200, updated_project)
        /\ pending' = RemoveAt(pending, k)
        /\ UNCHANGED <<users, workers, expenses, incomes, workdays, now>>

\* update_project: the check of project, then
\* await db.projects.replace_one({"id": project_id}, updated_project.dict())
\* and the response.
update_project_replace_one(k) ==
    LET request == pending[k]
        updated_project == Project(request.project_data, request.project_id,
                                   request.current_user.id)
    IN  /\ request.op = "update_project"
        /\ IF request.project = <<>>
           THEN /\ resp' = Response("update_project", request.current_user.id,
                                    request.project_id, 404,
                                    "Project not found")
                /\ UNCHANGED projects
           ELSE /\ projects' = ReplaceOne(projects,
                                          [id |-> request.project_id],
                                          updated_project)
                /\ resp' = Response("update_project", request.current_user.id,
                                    request.project_id, 200, updated_project)
        /\ pending' = RemoveAt(pending, k)
        /\ UNCHANGED <<users, workers, expenses, incomes, workdays, now>>

\* get_financial_report: the filters, then
\* expenses = await db.expenses.find(expense_filter).to_list(1000)
get_financial_report_expenses(current_user, period, project_id) ==
    LET expense_filter == ReportFilter(current_user, period, project_id)
    IN  /\ pending' = Append(pending,
               [op |-> "get_financial_report", current_user |-> current_user,
                period |-> period, project_id |-> project_id,
                started |-> now, awaiting |-> "incomes",
                income_filter  |-> ReportFilter(current_user, period,
                                                project_id),
                workday_filter |-> ReportFilter(current_user, period,
                                                project_id),
                expenses |-> ToList(Find(expenses, expense_filter), ListCap)])
        /\ UNCHANGED <<store, now, resp>>

\* incomes = await db.incomes.find(income_filter).to_list(1000)
get_financial_report_incomes(k) ==
    LET request == pending[k]
    IN  /\ request.op = "get_financial_report"
        /\ request.awaiting = "incomes"
        /\ pending' = [pending EXCEPT ![k] =
               [awaiting |-> "workdays",
                incomes  |-> ToList(Find(incomes, request.income_filter),
                                    ListCap)] @@ request]
        /\ UNCHANGED <<store, now, resp>>

\* workdays = await db.workdays.find(workday_filter).to_list(1000)
get_financial_report_workdays(k) ==
    LET request == pending[k]
    IN  /\ request.op = "get_financial_report"
        /\ request.awaiting = "workdays"
        /\ pending' = [pending EXCEPT ![k] =
               [awaiting |-> "workers",
                workdays |-> ToList(Find(workdays, request.workday_filter),
                                    ListCap)] @@ request]
        /\ UNCHANGED <<store, now, resp>>

\* Mutant: total_incomes is summed over the expenses read.
get_financial_report_workers_SumsExpenses(k) ==
    LET request == pending[k]
        worker_list == ToList(Find(workers,
                           [user_id |-> request.current_user.id]), ListCap)
        total_expenses  == TotalExpenses(request.expenses)
        total_incomes   == TotalExpenses(request.expenses)
        worker_payments == WorkerPayments(request.workdays, worker_list)
    IN  /\ request.op = "get_financial_report"
        /\ request.awaiting = "workers"
        /\ resp' = Response("get_financial_report", request.current_user.id,
               [period |-> request.period, project_id |-> request.project_id],
               200,
               [total_incomes   |-> total_incomes,
                total_expenses  |-> total_expenses,
                worker_payments |-> worker_payments,
                profit          |-> Profit(total_incomes, total_expenses,
                                           worker_payments),
                period          |-> request.period,
                project_id      |-> request.project_id])
        /\ pending' = RemoveAt(pending, k)
        /\ UNCHANGED <<store, now>>

\* workers = await db.workers.find({"user_id": ...}).to_list(1000), the
\* totals and the response.
get_financial_report_workers(k) ==
    LET request == pending[k]
        worker_list == ToList(Find(workers,
                           [user_id |-> request.current_user.id]), ListCap)
        total_expenses  == TotalExpenses(request.expenses)
        total_incomes   == TotalIncomes(request.incomes)
        worker_payments == WorkerPayments(request.workdays, worker_list)
    IN  /\ request.op = "get_financial_report"
        /\ request.awaiting = "workers"
        /\ resp' = Response("get_financial_report", request.current_user.id,
               [period |-> request.period, project_id |-> request.project_id],
               200,
               [total_incomes   |-> total_incomes,
                total_expenses  |-> total_expenses,
                worker_payments |-> worker_payments,
                profit          |-> Profit(total_incomes, total_expenses,
                                           worker_payments),
                period          |-> request.period,
                project_id      |-> request.project_id])
        /\ pending' = RemoveAt(pending, k)
        /\ UNCHANGED <<store, now>>

(***************************************************************************)
(* The clock                                                               *)
(***************************************************************************)
\* Time passes between requests, a day at a time.
Tick ==
    /\ now' = now + 24
    /\ UNCHANGED <<store, resp, pending>>

(***************************************************************************)
(* Request bodies and their validation (FastAPI with the pydantic payload  *)
(* models)                                                                 *)
(*                                                                         *)
(* A request body is a JSON object: a function from the field names the    *)
(* client sent to JSON values.  FastAPI builds the payload model of the    *)
(* route from it before it calls the handler, and answers 422 itself when  *)
(* the model cannot be built.  A payload model keeps its declared fields   *)
(* only: fields it does not declare are ignored.                           *)
(***************************************************************************)
JsonNumber(n) == [number |-> n]
JsonString(s) == [string |-> s]

\* The JSON strings that read as a number, with the number read.
NumericStrings == ("3" :> 3)

\* Mutant: any string passes for a number.
NumberField_AnyString(v) ==
    IF "number" \in DOMAIN v THEN <<v.number>>
    ELSE IF v.string \in DOMAIN NumericStrings
    THEN <<NumericStrings[v.string]>>
    ELSE <<0>>

\* Validation of a float or int field: a number, or a string that reads as
\* one, as <<number>>; <<>> for any other string.
NumberField(v) ==
    IF "number" \in DOMAIN v THEN <<v.number>>
    ELSE IF v.string \in DOMAIN NumericStrings
    THEN <<NumericStrings[v.string]>>
    ELSE <<>>

\* A str field (the clients send strings for them).
StrField(v) == v.string

\* An Optional field with default None.
OptionalStr(body, field) ==
    IF field \in DOMAIN body THEN StrField(body[field]) ELSE None

\* An Optional[dict] field with default None; the dict is kept as sent.
OptionalDict(body, field) ==
    IF field \in DOMAIN body THEN body[field] ELSE None

\* class WorkSection: <<model>>, or <<>> when validation fails.
WorkSection(body) ==
    IF /\ {"name", "percentage"} \subseteq DOMAIN body
       /\ NumberField(body.percentage) # <<>>
    THEN << [name       |-> StrField(body.name),
             percentage |-> NumberField(body.percentage)[1]] >>
    ELSE <<>>

\* A List[WorkSection] field with default [].
WorkSections(body, field) ==
    IF field \in DOMAIN body
    THEN [k \in DOMAIN body[field] |-> WorkSection(body[field][k])]
    ELSE <<>>

\* class ProjectCreate: <<model>>, or <<>> when validation fails.
ProjectCreate(body) ==
    IF /\ {"name", "type", "floors_count", "address", "contact_phone1",
           "total_amount"} \subseteq DOMAIN body
       /\ NumberField(body.floors_count) # <<>>
       /\ NumberField(body.total_amount) # <<>>
       /\ \A k \in DOMAIN WorkSections(body, "work_sections") :
             WorkSections(body, "work_sections")[k] # <<>>
    THEN << [name            |-> StrField(body.name),
             type            |-> StrField(body.type),
             work_sections   |->
                 [k \in DOMAIN WorkSections(body, "work_sections") |->
                     WorkSections(body, "work_sections")[k][1]],
             floors_count    |-> NumberField(body.floors_count)[1],
             address         |-> StrField(body.address),
             contact_phone1  |-> StrField(body.contact_phone1),
             contact_phone2  |-> OptionalStr(body, "contact_phone2"),
             total_amount    |-> NumberField(body.total_amount)[1],
             building_config |-> OptionalDict(body, "building_config"),
             street_config   |-> OptionalDict(body, "street_config")] >>
    ELSE <<>>

\* class WorkerCreate
WorkerCreate(body) ==
    IF /\ {"name", "payment_type", "payment_amount"} \subseteq DOMAIN body
       /\ NumberField(body.payment_amount) # <<>>
    THEN << [name           |-> StrField(body.name),
             id_number      |-> OptionalStr(body, "id_number"),
             id_image       |-> OptionalStr(body, "id_image"),
             payment_type   |-> StrField(body.payment_type),
             payment_amount |-> NumberField(body.payment_amount)[1]] >>
    ELSE <<>>

\* class ExpenseCreate
ExpenseCreate(body) ==
    IF /\ {"type", "amount"} \subseteq DOMAIN body
       /\ NumberField(body.amount) # <<>>
    THEN << [project_id  |-> OptionalStr(body, "project_id"),
             type        |-> StrField(body.type),
             amount      |-> NumberField(body.amount)[1],
             description |-> OptionalStr(body, "description")] >>
    ELSE <<>>

\* class IncomeCreate
IncomeCreate(body) ==
    IF /\ {"project_id", "amount_before_tax"} \subseteq DOMAIN body
       /\ NumberField(body.amount_before_tax) # <<>>
    THEN << [project_id        |-> StrField(body.project_id),
             amount_before_tax |-> NumberField(body.amount_before_tax)[1],
             description       |-> OptionalStr(body, "description")] >>
    ELSE <<>>

\* class WorkDayCreate
WorkDayCreate(body) ==
    IF /\ {"project_id", "work_section", "floor_number", "work_percentage",
           "workers"} \subseteq DOMAIN body
       /\ NumberField(body.floor_number) # <<>>
       /\ NumberField(body.work_percentage) # <<>>
    THEN << [project_id      |-> StrField(body.project_id),
             work_section    |-> StrField(body.work_section),
             floor_number    |-> NumberField(body.floor_number)[1],
             work_percentage |-> NumberField(body.work_percentage)[1],
             workers         |->
                 [k \in DOMAIN body.workers |-> StrField(body.workers[k])],
             vehicle_used    |-> OptionalStr(body, "vehicle_used"),
             notes           |-> OptionalStr(body, "notes")] >>
    ELSE <<>>

\* The answer of FastAPI to a body its route's payload model refuses.
ValidationError(op, current_user, body) ==
    /\ resp' = Response(op, current_user.id, body, 422, "Unprocessable Entity")
    /\ UNCHANGED <<store, now, pending>>

\* POST /projects with a JSON body
POST_projects(current_user, body) ==
    LET project_data == ProjectCreate(body)
    IN  IF project_data = <<>>
        THEN ValidationError("create_project", current_user, body)
        ELSE create_project(current_user, project_data[1])

\* PUT /projects/{project_id} with a JSON body
PUT_projects(current_user, project_id, body) ==
    LET project_data == ProjectCreate(body)
    IN  IF project_data = <<>>
        THEN ValidationError("update_project", current_user, body)
        ELSE update_project(current_user, project_id, project_data[1])

\* POST /workers with a JSON body
POST_workers(current_user, body) ==
    LET worker_data == WorkerCreate(body)
    IN  IF worker_data = <<>>
        THEN ValidationError("create_worker", current_user, body)
        ELSE create_worker(current_user, worker_data[1])

\* POST /expenses with a JSON body
POST_expenses(current_user, body) ==
    LET expense_data == ExpenseCreate(body)
    IN  IF expense_data = <<>>
        THEN ValidationError("create_expense", current_user, body)
        ELSE create_expense(current_user, expense_data[1])

\* POST /incomes with a JSON body
POST_incomes(current_user, body) ==
    LET income_data == IncomeCreate(body)
    IN  IF income_data = <<>>
        THEN ValidationError("create_income", current_user, body)
        ELSE create_income(current_user, income_data[1])

\* POST /workdays with a JSON body
POST_workdays(current_user, body) ==
    LET workday_data == WorkDayCreate(body)
    IN  IF workday_data = <<>>
        THEN ValidationError("create_workday", current_user, body)
        ELSE create_workday(current_user, workday_data[1])

(***************************************************************************)
(* Request payloads the clients send                                       *)
(***************************************************************************)
Usernames == {"alice", "bob"}
Emails    == {None}
Passwords == {"pw"}

Section(name, percentage) == [name |-> name, percentage |-> percentage]

\* The fields of the payload models that no report reads, as a building
\* site, a street site, a worker, an expense, an income and a work day
\* carry them.
BuildingDetails ==
    [type |-> "building", floors_count |-> 3, address |-> "12 Main St",
     contact_phone1 |-> "050", contact_phone2 |-> None,
     building_config |-> None, street_config |-> None]

StreetDetails ==
    [type |-> "street", floors_count |-> 0, address |-> "Ring Rd",
     contact_phone1 |-> "050", contact_phone2 |-> "02",
     building_config |-> None, street_config |-> None]

WorkerDetails  == [name |-> "worker", id_number |-> None, id_image |-> None]
ExpenseDetails == [type |-> "fuel", description |-> None]
IncomeDetails  == [description |-> None]
WorkdayDetails == [floor_number |-> 1, vehicle_used |-> None, notes |-> None]

ProjectPayloads ==
    { [name |-> "tower", total_amount |-> 500000,
       work_sections |-> <<Section("A", 40), Section("B", 80)>>]
        @@ BuildingDetails,
      [name |-> "road", total_amount |-> 90000, work_sections |-> <<>>]
        @@ StreetDetails }

WorkerPayloads ==
    { [payment_type |-> "daily", payment_amount |-> 100] @@ WorkerDetails,
      [payment_type |-> "hourly", payment_amount |-> 30] @@ WorkerDetails }

ExpensePayloads ==
    { [project_id |-> None, amount |-> 1] @@ ExpenseDetails,
      [project_id |-> "p1", amount |-> 2] @@ ExpenseDetails }

IncomePayloads ==
    { [project_id |-> "p1", amount_before_tax |-> 1000] @@ IncomeDetails }

WorkdayPayloads ==
    { [project_id |-> "p1", work_section |-> "A", work_percentage |-> 50,
       workers |-> <<"w1">>] @@ WorkdayDetails }

\* Project ids a client may put in a URL or a query.
ProjectIdArgs == {"p1", "p2", DanglingProject}
Periods       == {None, "monthly", "yearly"}

(***************************************************************************)
(* The system from an empty store                                          *)
(***************************************************************************)
\* Requests handled in one run of the model: creates stop at MaxRecords
\* business records.
MaxRecords == 2
MaxUsers   == 2

NumRecords ==
    Len(projects) + Len(workers) + Len(expenses) + Len(incomes) + Len(workdays)

Init ==
    /\ users = <<>>
    /\ projects = <<>>
    /\ workers = <<>>
    /\ expenses = <<>>
    /\ incomes = <<>>
    /\ workdays = <<>>
    /\ now = 0
    /\ pending = <<>>
    /\ resp = Response("none", None, None, 0, None)

Next ==
    \/ \E un \in Usernames, em \in Emails, pw \in Passwords :
          /\ Len(users) < MaxUsers
          /\ register([username |-> un, email |-> em, password |-> pw])
    \/ \E cu \in get_current_user, pd \in ProjectPayloads :
          NumRecords < MaxRecords /\ create_project(cu, pd)
    \/ \E cu \in get_current_user : get_projects(cu)
    \/ \E cu \in get_current_user, pid \in ProjectIdArgs : get_project(cu, pid)
    \/ \E cu \in get_current_user, pid \in ProjectIdArgs, pd \in ProjectPayloads :
          update_project(cu, pid, pd)
    \/ \E cu \in get_current_user, wd \in WorkerPayloads :
          NumRecords < MaxRecords /\ create_worker(cu, wd)
    \/ \E cu \in get_current_user : get_workers(cu)
    \/ \E cu \in get_current_user, ed \in ExpensePayloads :
          NumRecords < MaxRecords /\ create_expense(cu, ed)
    \/ \E cu \in get_current_user : get_expenses(cu)
    \/ \E cu \in get_current_user, idt \in IncomePayloads :
          NumRecords < MaxRecords /\ create_income(cu, idt)
    \/ \E cu \in get_current_user : get_incomes(cu)
    \/ \E cu \in get_current_user, wd \in WorkdayPayloads :
          NumRecords < MaxRecords /\ create_workday(cu, wd)
    \/ \E cu \in get_current_user : get_workdays(cu)
    \/ \E cu \in get_current_user, period \in Periods, pid \in {None, "p1"} :
          get_financial_report(cu, period, pid)
    \/ \E cu \in get_current_user : get_projects_financial_summary(cu)

Spec == Init /\ [][Next]_vars

(***************************************************************************)
(* The reports over a populated store                                      *)
(*                                                                         *)
(* The store starts as two registered users leave it after setting up      *)
(* their projects and workers (the set-up of backend_test.py, for two      *)
(* tenants); the requests then record expenses, incomes and work days and  *)
(* ask for the reports.                                                    *)
(***************************************************************************)
FixtureUsers ==
    << [id |-> "u1", username |-> "alice", email |-> None,
        password_hash |-> hash_password("pw"), created_at |-> 0],
       [id |-> "u2", username |-> "bob", email |-> None,
        password_hash |-> hash_password("pw"), created_at |-> 0] >>

FixtureProject(id, user_id, name, total_amount, work_sections) ==
    [id |-> id, user_id |-> user_id, name |-> name,
     work_sections |-> work_sections, total_amount |-> total_amount,
     progress_percentage |-> 0, status |-> "active", created_at |-> 0]
        @@ BuildingDetails

\* p1 has two sections; p2 has none; p3, of the other user, has two sections
\* of the same name.
FixtureProjects ==
    << FixtureProject("p1", "u1", "tower", 500000,
                      <<Section("A", 40), Section("B", 80)>>),
       FixtureProject("p2", "u1", "road", 90000, <<>>),
       FixtureProject("p3", "u2", "mall", 70000,
                      <<Section("A", 80), Section("A", 40)>>) >>

FixtureWorker(id, user_id, payment_type, payment_amount) ==
    [id |-> id, user_id |-> user_id, payment_type |-> payment_type,
     payment_amount |-> payment_amount, created_at |-> 0] @@ WorkerDetails

FixtureWorkers ==
    << FixtureWorker("w1", "u1", "daily", 100),
       FixtureWorker("w2", "u1", "hourly", 30),
       FixtureWorker("w3", "u2", "daily", 500),
       FixtureWorker("w4", "u1", "monthly", 7000) >>

FinExpensePayloads ==
    { [project_id |-> None, amount |-> 1] @@ ExpenseDetails,
      [project_id |-> "p1", amount |-> 2] @@ ExpenseDetails,
      [project_id |-> "p2", amount |-> 4] @@ ExpenseDetails,
      [project_id |-> "",   amount |-> 8] @@ ExpenseDetails }

FinIncomePayloads ==
    { [project_id |-> "p1", amount_before_tax |-> 1000] @@ IncomeDetails,
      [project_id |-> "p2", amount_before_tax |-> 2000] @@ IncomeDetails,
      [project_id |-> "",   amount_before_tax |-> 4000] @@ IncomeDetails }

FinWorkdayPayloads ==
    { [project_id |-> "p1", work_section |-> "A", work_percentage |-> 50,
       workers |-> <<"w1">>] @@ WorkdayDetails,
      [project_id |-> "p1", work_section |-> "B", work_percentage |-> 100,
       workers |-> <<"w1", "w1">>] @@ WorkdayDetails,
      [project_id |-> "p1", work_section |-> "Z", work_percentage |-> 100,
       workers |-> <<"w2", "w3", "w4", DanglingWorker>>] @@ WorkdayDetails,
      [project_id |-> "p2", work_section |-> "A", work_percentage |-> 50,
       workers |-> <<>>] @@ WorkdayDetails,
      [project_id |-> "p3", work_section |-> "A", work_percentage |-> 100,
       workers |-> <<"w3">>] @@ WorkdayDetails }

FinProjectIdArgs == {None, "", "p1", "p2", "p3"}

\* Expenses, incomes and work days recorded in one run.
MaxFinRecords == 2

FinRecords == Len(expenses) + Len(incomes) + Len(workdays)

InitFin ==
    /\ users = FixtureUsers
    /\ projects = FixtureProjects
    /\ workers = FixtureWorkers
    /\ expenses = <<>>
    /\ incomes = <<>>
    /\ workdays = <<>>
    /\ now = 0
    /\ pending = <<>>
    /\ resp = Response("none", None, None, 0, None)

NextFin ==
    \/ \E cu \in get_current_user, ed \in FinExpensePayloads :
          FinRecords < MaxFinRecords /\ create_expense(cu, ed)
    \/ \E cu \in get_current_user, idt \in FinIncomePayloads :
          FinRecords < MaxFinRecords /\ create_income(cu, idt)
    \/ \E cu \in get_current_user, wd \in FinWorkdayPayloads :
          FinRecords < MaxFinRecords /\ create_workday(cu, wd)
    \/ \E cu \in get_current_user, pid \in FinProjectIdArgs :
          get_financial_report(cu, None, pid)
    \/ \E cu \in get_current_user : get_projects_financial_summary(cu)

SpecFin == InitFin /\ [][NextFin]_vars

(***************************************************************************)
(* The reports while the clock advances                                    *)
(***************************************************************************)
ClockExpensePayloads ==
    { [project_id |-> None, amount |-> 1] @@ ExpenseDetails }
ClockIncomePayloads ==
    { [project_id |-> "p1", amount_before_tax |-> 1000] @@ IncomeDetails }
ClockWorkdayPayloads ==
    { [project_id |-> "p1", work_section |-> "A", work_percentage |-> 50,
       workers |-> <<"w1">>] @@ WorkdayDetails }

\* Days the clock runs, and records created meanwhile.
MaxDays         == 4
MaxClockRecords == 2

NextClock ==
    \/ now < 24 * MaxDays /\ Tick
    \/ \E cu \in get_current_user, ed \in ClockExpensePayloads :
          FinRecords < MaxClockRecords /\ create_expense(cu, ed)
    \/ \E cu \in get_current_user, idt \in ClockIncomePayloads :
          FinRecords < MaxClockRecords /\ create_income(cu, idt)
    \/ \E cu \in get_current_user, wd \in ClockWorkdayPayloads :
          FinRecords < MaxClockRecords /\ create_workday(cu, wd)
    \/ \E cu \in get_current_user, period \in Periods, pid \in {None, "p1"} :
          get_financial_report(cu, period, pid)

SpecClock == InitFin /\ [][NextClock]_vars

(***************************************************************************)
(* The reports over a long-lived store                                     *)
(*                                                                         *)
(* The first user has recorded ListCap expenses (one call of POST          *)
(* /expenses each); the requests add a few more records and ask for the    *)
(* financial report.                                                       *)
(***************************************************************************)
BulkExpenses ==
    [k \in 1..ListCap |->
        [id |-> k, user_id |-> "u1", project_id |-> None, amount |-> 1,
         date |-> 0] @@ ExpenseDetails]

BulkExpensePayloads ==
    { [project_id |-> None, amount |-> 1] @@ ExpenseDetails,
      [project_id |-> "p1", amount |-> 2] @@ ExpenseDetails }

\* Records created on top of the ListCap stored ones.
MaxBulkExtra == 3

InitBulk ==
    /\ users = FixtureUsers
    /\ projects = FixtureProjects
    /\ workers = FixtureWorkers
    /\ expenses = BulkExpenses
    /\ incomes = <<>>
    /\ workdays = <<>>
    /\ now = 0
    /\ pending = <<>>
    /\ resp = Response("none", None, None, 0, None)

NextBulk ==
    \/ \E cu \in get_current_user, ed \in BulkExpensePayloads :
          /\ Len(expenses) + Len(incomes) < ListCap + MaxBulkExtra
          /\ create_expense(cu, ed)
    \/ \E cu \in get_current_user, idt \in ClockIncomePayloads :
          /\ Len(expenses) + Len(incomes) < ListCap + MaxBulkExtra
          /\ create_income(cu, idt)
    \/ \E cu \in get_current_user, pid \in {None, "p1"} :
          get_financial_report(cu, None, pid)
    \/ \E cu \in get_current_user : get_expenses(cu)
    \/ \E cu \in get_current_user : get_projects(cu)
    \/ \E cu \in get_current_user : get_workers(cu)
    \/ \E cu \in get_current_user : get_incomes(cu)
    \/ \E cu \in get_current_user : get_workdays(cu)

SpecBulk == InitBulk /\ [][NextBulk]_vars

(***************************************************************************)
(* The routes as the clients call them, with JSON bodies                   *)
(*                                                                         *)
(* The bodies are those of backend_test.py and project_creation_test.py,   *)
(* shortened: a building with work sections and work additions, a street   *)
(* without floors_count, a body short of required fields, bodies with      *)
(* wrongly typed numbers, and bodies carrying fields the payload models do *)
(* not declare.                                                            *)
(***************************************************************************)
JsonSection(name, percentage) ==
    [name |-> JsonString(name), percentage |-> JsonNumber(percentage)]

\* test_create_project: a building with work_sections and work_additions.
BuildingBody ==
    [name           |-> JsonString("villa"),
     type           |-> JsonString("building"),
     work_sections  |-> <<JsonSection("A", 40), JsonSection("B", 50)>>,
     work_additions |-> <<JsonSection("fence", 10)>>,
     floors_count   |-> JsonNumber(3),
     address        |-> JsonString("12 Main St"),
     contact_phone1 |-> JsonString("050"),
     contact_phone2 |-> JsonString("02"),
     total_amount   |-> JsonNumber(850000),
     building_config |-> [apartments_per_floor |-> 2]]

\* test_create_street_project_and_workday: a street, without floors_count.
StreetBody ==
    [name           |-> JsonString("king st"),
     type           |-> JsonString("street"),
     work_sections  |-> <<JsonSection("paving", 100)>>,
     work_additions |-> <<JsonSection("lights", 10)>>,
     street_length  |-> JsonNumber(2500),
     address        |-> JsonString("Ring Rd"),
     contact_phone1 |-> JsonString("050"),
     total_amount   |-> JsonNumber(450000),
     street_config  |-> [lanes |-> 4]]

\* test_edge_cases, test 1: the percentages add up to 90; the body also
\* names an id, an owner and a status of the client's choosing.
Percent90Body ==
    [name           |-> JsonString("ninety"),
     type           |-> JsonString("building"),
     work_sections  |-> <<JsonSection("A", 50), JsonSection("B", 30)>>,
     work_additions |-> <<JsonSection("fence", 10)>>,
     floors_count   |-> JsonNumber(2),
     address        |-> JsonString("Test St"),
     contact_phone1 |-> JsonString("050"),
     total_amount   |-> JsonNumber(300000),
     id             |-> JsonString("p-mine"),
     user_id        |-> JsonString("u2"),
     status         |-> JsonString("completed")]

\* test_edge_cases, test 2: required fields are missing.
MissingFieldsBody ==
    [name |-> JsonString("short"), type |-> JsonString("building")]

\* test_edge_cases, test 3: words where numbers are declared.
InvalidTypesBody ==
    [name           |-> JsonString("words"),
     type           |-> JsonString("building"),
     work_sections  |-> <<[name |-> JsonString("A"),
                           percentage |-> JsonString("fifty")]>>,
     floors_count   |-> JsonString("three"),
     address        |-> JsonString("Test St"),
     contact_phone1 |-> JsonString("050"),
     total_amount   |-> JsonString("half a million")]

\* A number sent as a JSON string where an int is declared.
QuotedNumberBody ==
    [name           |-> JsonString("quoted"),
     type           |-> JsonString("building"),
     floors_count   |-> JsonString("3"),
     address        |-> JsonString("Test St"),
     contact_phone1 |-> JsonString("050"),
     total_amount   |-> JsonNumber(100000)]

ApiProjectBodies ==
    {BuildingBody, StreetBody, Percent90Body, MissingFieldsBody,
     InvalidTypesBody, QuotedNumberBody}

ApiWorkerBodies ==
    { [name |-> JsonString("sam"), payment_type |-> JsonString("daily"),
       payment_amount |-> JsonNumber(100), id |-> JsonString("w-mine"),
       user_id |-> JsonString("u2")],
      [name |-> JsonString("tom"), payment_type |-> JsonString("daily")] }

ApiExpenseBodies ==
    { [type |-> JsonString("fuel"), amount |-> JsonNumber(7),
       user_id |-> JsonString("u2")],
      [type |-> JsonString("fuel"), amount |-> JsonString("seven")] }

\* test_create_income sends amount_with_tax and tax_percentage.
ApiIncomeBodies ==
    { [project_id |-> JsonString("p1"), amount_with_tax |-> JsonNumber(29250),
       tax_percentage |-> JsonNumber(17)],
      [project_id |-> JsonString("p1"), amount_with_tax |-> JsonNumber(10000),
       tax_percentage |-> JsonNumber(0)],
      [project_id |-> JsonString("p1"),
       amount_before_tax |-> JsonNumber(25000), user_id |-> JsonString("u2")] }

\* A work day on a floor of a building, and the one of
\* test_create_street_project_and_workday, without floor_number.
ApiWorkdayBodies ==
    { [project_id |-> JsonString("p1"), work_section |-> JsonString("A"),
       floor_number |-> JsonNumber(2), work_percentage |-> JsonNumber(50),
       workers |-> <<JsonString("w1")>>, user_id |-> JsonString("u2")],
      [project_id |-> JsonString("p1"), work_section |-> JsonString("paving"),
       work_area |-> JsonString("km 1"), work_percentage |-> JsonNumber(30),
       workers |-> <<JsonString("w1")>>] }

\* The bodies and project ids of the PUT requests.
ApiUpdateBodies  == {Percent90Body, InvalidTypesBody, QuotedNumberBody}
ApiProjectIdArgs == {"p1", DanglingProject}

\* Records created in one run, and days the clock runs meanwhile.
MaxApiRecords == 2
MaxApiDays    == 1

\* One user has registered; the bodies that name an owner name another one.
InitApi ==
    /\ users = SubSeq(FixtureUsers, 1, 1)
    /\ projects = <<>>
    /\ workers = <<>>
    /\ expenses = <<>>
    /\ incomes = <<>>
    /\ workdays = <<>>
    /\ now = 0
    /\ pending = <<>>
    /\ resp = Response("none", None, None, 0, None)

NextApi ==
    \/ now < 24 * MaxApiDays /\ Tick
    \/ \E cu \in get_current_user, body \in ApiProjectBodies :
          NumRecords < MaxApiRecords /\ POST_projects(cu, body)
    \/ \E cu \in get_current_user, pid \in ApiProjectIdArgs,
          body \in ApiUpdateBodies : PUT_projects(cu, pid, body)
    \/ \E cu \in get_current_user, body \in ApiWorkerBodies :
          NumRecords < MaxApiRecords /\ POST_workers(cu, body)
    \/ \E cu \in get_current_user, body \in ApiExpenseBodies :
          NumRecords < MaxApiRecords /\ POST_expenses(cu, body)
    \/ \E cu \in get_current_user, body \in ApiIncomeBodies :
          NumRecords < MaxApiRecords /\ POST_incomes(cu, body)
    \/ \E cu \in get_current_user, body \in ApiWorkdayBodies :
          NumRecords < MaxApiRecords /\ POST_workdays(cu, body)

SpecApi == InitApi /\ [][NextApi]_vars

(***************************************************************************)
(* Registration and login                                                  *)
(*                                                                         *)
(* Names and addresses the clients register and log in with: a username    *)
(* may be any string, one that reads as an e-mail address included; the    *)
(* e-mail is optional and may be sent empty.                               *)
(***************************************************************************)
AuthUsernames == {"alice", "a@x"}
AuthEmails    == {None, "", "a@x", "b@x"}
AuthPasswords == {"pw", "pw2"}
AuthIdentifiers == AuthUsernames \cup (AuthEmails \ {None})

\* Users registered in one run.
MaxAuthUsers == 2

InitAuth ==
    /\ users = <<>>
    /\ projects = <<>>
    /\ workers = <<>>
    /\ expenses = <<>>
    /\ incomes = <<>>
    /\ workdays = <<>>
    /\ now = 0
    /\ pending = <<>>
    /\ resp = Response("none", None, None, 0, None)

NextAuth ==
    \/ \E un \in AuthUsernames, em \in AuthEmails, pw \in AuthPasswords :
          /\ Len(users) < MaxAuthUsers
          /\ register([username |-> un, email |-> em, password |-> pw])
    \/ \E id \in AuthIdentifiers, pw \in AuthPasswords :
          login([username_or_email |-> id, password |-> pw])

SpecAuth == InitAuth /\ [][NextAuth]_vars

(***************************************************************************)
(* The protected routes as the clients call them, with bearer tokens       *)
(*                                                                         *)
(* The store starts with one user who has set up a project and a worker;   *)
(* clients call every protected route with a token while the clock         *)
(* advances past the expiry of the first tokens.                           *)
(***************************************************************************)
\* Time passes between requests, some hours at a time.
Pass(hours) ==
    /\ now' = now + hours
    /\ UNCHANGED <<store, resp, pending>>

\* The clock of these runs steps by two thirds of the validity window, for
\* MaxTokenSteps steps.
TokenStep     == (2 * JWT_EXPIRATION_HOURS) \div 3
MaxTokenSteps == 2

\* The instants of the clock up to now.
TokenTimes == {t \in 0..now : t % TokenStep = 0}

\* The tokens register and login can have issued by now: to each stored
\* user, one at any instant since the user registered.
IssuedTokens ==
    UNION { { [user_id |-> u.id, exp |-> t + JWT_EXPIRATION_HOURS]
                  : t \in {h \in TokenTimes : u.created_at <= h} }
            : u \in Range(users) }

\* Other bearer strings a client can send: one that is no token (the
\* "invalid_token_123" of test_jwt_authentication), and tokens signed with
\* JWT_SECRET that carry no user_id or the id of no stored user.
OtherTokens ==
    { InvalidToken("invalid_token_123"),
      [exp |-> JWT_EXPIRATION_HOURS],
      [user_id |-> "u-none", exp |-> JWT_EXPIRATION_HOURS] }

Tokens == IssuedTokens \cup OtherTokens

TokenProjectPayloads ==
    { [name |-> "road", total_amount |-> 90000, work_sections |-> <<>>]
        @@ StreetDetails }
TokenWorkerPayloads ==
    { [payment_type |-> "daily", payment_amount |-> 100] @@ WorkerDetails }

\* Business records created in one run.
MaxTokenRecords == 1

InitToken ==
    /\ users = SubSeq(FixtureUsers, 1, 1)
    /\ projects = SubSeq(FixtureProjects, 1, 1)
    /\ workers = SubSeq(FixtureWorkers, 1, 1)
    /\ expenses = <<>>
    /\ incomes = <<>>
    /\ workdays = <<>>
    /\ now = 0
    /\ pending = <<>>
    /\ resp = Response("none", None, None, 0, None)

\* Business records created since the set-up.
TokenRecords == NumRecords - 2

\* The protected routes (every route but register and login).
ProtectedOps ==
    {"create_project", "get_projects", "get_project", "update_project",
     "create_worker", "get_workers", "create_expense", "get_expenses",
     "create_income", "get_incomes", "create_workday", "get_workdays",
     "get_financial_report", "get_projects_financial_summary"}

\* The handler of a protected route, run with the user the dependency
\* returned.
RouteHandler(op, cu) ==
    \/ /\ op = "create_project"
       /\ TokenRecords < MaxTokenRecords
       /\ \E pd \in TokenProjectPayloads :
             create_project(cu, pd)
    \/ /\ op = "get_projects"
       /\ get_projects(cu)
    \/ /\ op = "get_project"
       /\ \E pid \in ApiProjectIdArgs :
             get_project(cu, pid)
    \/ /\ op = "update_project"
       /\ \E pid \in ApiProjectIdArgs, pd \in TokenProjectPayloads :
             update_project(cu, pid, pd)
    \/ /\ op = "create_worker"
       /\ TokenRecords < MaxTokenRecords
       /\ \E wd \in TokenWorkerPayloads :
             create_worker(cu, wd)
    \/ /\ op = "get_workers"
       /\ get_workers(cu)
    \/ /\ op = "create_expense"
       /\ TokenRecords < MaxTokenRecords
       /\ \E ed \in ClockExpensePayloads :
             create_expense(cu, ed)
    \/ /\ op = "get_expenses"
       /\ get_expenses(cu)
    \/ /\ op = "create_income"
       /\ TokenRecords < MaxTokenRecords
       /\ \E idt \in ClockIncomePayloads :
             create_income(cu, idt)
    \/ /\ op = "get_incomes"
       /\ get_incomes(cu)
    \/ /\ op = "create_workday"
       /\ TokenRecords < MaxTokenRecords
       /\ \E wd \in ClockWorkdayPayloads :
             create_workday(cu, wd)
    \/ /\ op = "get_workdays"
       /\ get_workdays(cu)
    \/ /\ op = "get_financial_report"
       /\ \E period \in {None, "monthly"} :
             get_financial_report(cu, period, None)
    \/ /\ op = "get_projects_financial_summary"
       /\ get_projects_financial_summary(cu)

\* One request to a protected route with a bearer token.
ProtectedRequest(op, token) ==
    LET auth == Authenticate(token)
    IN  IF auth.status = 200
        THEN RouteHandler(op, auth.user)
        ELSE Depends(op, token)

NextToken ==
    \/ now < TokenStep * MaxTokenSteps /\ Pass(TokenStep)
    \/ \E op \in ProtectedOps, token \in Tokens : ProtectedRequest(op, token)

SpecToken == InitToken /\ [][NextToken]_vars

(***************************************************************************)
(* Tokens from their issue to their expiry                                 *)
(*                                                                         *)
(* Clients register and log in, and present the tokens they were issued    *)
(* while the clock advances past the expiry of the first ones.             *)
(***************************************************************************)
ExpiryUsernames == {"alice", "bob"}
ExpiryPasswords == {"pw", "pw-wrong"}
ExpiryOps == {"get_projects", "get_projects_financial_summary"}

\* Users registered, and steps of the clock, in one run.
MaxExpiryUsers == 2
MaxExpirySteps == 2

NextExpiry ==
    \/ now < TokenStep * MaxExpirySteps /\ Pass(TokenStep)
    \/ \E un \in ExpiryUsernames :
          /\ Len(users) < MaxExpiryUsers
          /\ register([username |-> un, email |-> None, password |-> "pw"])
    \/ \E un \in ExpiryUsernames, pw \in ExpiryPasswords :
          login([username_or_email |-> un, password |-> pw])
    \/ \E op \in ExpiryOps, token \in IssuedTokens :
          ProtectedRequest(op, token)

SpecExpiry == Init /\ [][NextExpiry]_vars

(***************************************************************************)
(* Records that name another tenant's project or worker                    *)
(*                                                                         *)
(* The store is the reports' set-up.  Each user records expenses on p3 (of *)
(* the second user), incomes on p1 (of the first) and work days on p3 that *)
(* list a daily worker of each user, and asks for the reports.             *)
(***************************************************************************)
TenantExpensePayloads ==
    { [project_id |-> "p3", amount |-> 2] @@ ExpenseDetails }
TenantIncomePayloads ==
    { [project_id |-> "p1", amount_before_tax |-> 1000] @@ IncomeDetails }
TenantWorkdayPayloads ==
    { [project_id |-> "p3", work_section |-> "A", work_percentage |-> 50,
       workers |-> <<"w3", "w1">>] @@ WorkdayDetails }

TenantProjectIdArgs == {None, "p1", "p3"}

\* Expenses, incomes and work days recorded in one run.
MaxTenantRecords == 2

NextTenant ==
    \/ \E cu \in get_current_user, ed \in TenantExpensePayloads :
          FinRecords < MaxTenantRecords /\ create_expense(cu, ed)
    \/ \E cu \in get_current_user, idt \in TenantIncomePayloads :
          FinRecords < MaxTenantRecords /\ create_income(cu, idt)
    \/ \E cu \in get_current_user, wd \in TenantWorkdayPayloads :
          FinRecords < MaxTenantRecords /\ create_workday(cu, wd)
    \/ \E cu \in get_current_user, pid \in TenantProjectIdArgs :
          get_financial_report(cu, None, pid)
    \/ \E cu \in get_current_user : get_projects_financial_summary(cu)

SpecTenant == InitFin /\ [][NextTenant]_vars

(***************************************************************************)
(* Registrations in flight together                                        *)
(***************************************************************************)
RaceUsernames == {"alice", "bob"}
RaceEmails    == {None, "a@x"}

\* Registrations suspended at once, and users stored, in one run.
MaxRacePending == 2
MaxRaceUsers   == 2

NextRace ==
    \/ \E un \in RaceUsernames, em \in RaceEmails :
          /\ Len(pending) < MaxRacePending
          /\ Len(users) < MaxRaceUsers
          /\ register_find_one([username |-> un, email |-> em,
                                password |-> "pw"])
    \/ \E k \in DOMAIN pending : register_insert_one(k)

SpecRace == Init /\ [][NextRace]_vars

(***************************************************************************)
(* Updates of one project in flight together                               *)
(*                                                                         *)
(* The store is the reports' set-up; both users send updates of project    *)
(* p1 (of the first user), whose payloads differ in several fields.        *)
(***************************************************************************)
UpdatePayloads ==
    { [name |-> "tower", total_amount |-> 500000,
       work_sections |-> <<Section("A", 40), Section("B", 80)>>]
        @@ BuildingDetails,
      [name |-> "tower-2", total_amount |-> 500000,
       work_sections |-> <<Section("A", 100)>>] @@ BuildingDetails,
      [name |-> "tower", total_amount |-> 600000, work_sections |-> <<>>]
        @@ StreetDetails }

\* Updates suspended at once.
MaxUpdatePending == 2

NextUpdate ==
    \/ \E cu \in get_current_user, pd \in UpdatePayloads :
          /\ Len(pending) < MaxUpdatePending
          /\ update_project_find_one(cu, "p1", pd)
    \/ \E k \in DOMAIN pending : update_project_replace_one(k)

SpecUpdate == InitFin /\ [][NextUpdate]_vars

(***************************************************************************)
(* Reports in flight while records are created                             *)
(*                                                                         *)
(* The store is the reports' set-up; the first user records expenses,      *)
(* incomes and work days and asks for the financial report.  The clock     *)
(* shows a new reading for every record written: a record is created, and  *)
(* a report is started, at a reading no stored record carries yet, so the  *)
(* records dated up to a reading are the store as it was then.             *)
(***************************************************************************)
\* No expense, income or work day is dated now.
FreshReading ==
    \A d \in Range(expenses) \cup Range(incomes) \cup Range(workdays) :
        d.date < now

\* Readings of the clock, records created and reports suspended at once in
\* one run.
MaxSnapshotReadings == 3
MaxSnapshotRecords  == 2
MaxSnapshotPending  == 1

NextSnapshot ==
    \/ now < MaxSnapshotReadings /\ Pass(1)
    \/ \E ed \in ClockExpensePayloads :
          /\ FinRecords < MaxSnapshotRecords
          /\ FreshReading
          /\ create_expense(users[1], ed)
    \/ \E idt \in ClockIncomePayloads :
          /\ FinRecords < MaxSnapshotRecords
          /\ FreshReading
          /\ create_income(users[1], idt)
    \/ \E wd \in ClockWorkdayPayloads :
          /\ FinRecords < MaxSnapshotRecords
          /\ FreshReading
          /\ create_workday(users[1], wd)
    \/ /\ Len(pending) < MaxSnapshotPending
       /\ FreshReading
       /\ get_financial_report_expenses(users[1], None, None)
    \/ \E k \in DOMAIN pending : get_financial_report_incomes(k)
    \/ \E k \in DOMAIN pending : get_financial_report_workdays(k)
    \/ \E k \in DOMAIN pending : get_financial_report_workers(k)

SpecSnapshot == InitFin /\ [][NextSnapshot]_vars

(***************************************************************************)
(* Work days of any percentage                                             *)
(*                                                                         *)
(* work_percentage is a float of WorkDayCreate with no bound: the route    *)
(* accepts every number a client sends, a negative one included.  The      *)
(* first user logs work days on the first project and asks for the         *)
(* summaries.                                                              *)
(***************************************************************************)
ProgressWorkdayBody(work_section, work_percentage) ==
    [project_id |-> JsonString("p1"), work_section |-> JsonString(work_section),
     floor_number |-> JsonNumber(1),
     work_percentage |-> JsonNumber(work_percentage),
     workers |-> <<JsonString("w1")>>]

\* The last body fails validation: its percentage is no number.
ProgressWorkdayBodies ==
    { ProgressWorkdayBody("A", 50), ProgressWorkdayBody("A", -50),
      ProgressWorkdayBody("B", 100), ProgressWorkdayBody("B", -100),
      [project_id |-> JsonString("p1"), work_section |-> JsonString("A"),
       floor_number |-> JsonNumber(1),
       work_percentage |-> JsonString("half"), workers |-> <<>>] }

\* Work days recorded in one run.
MaxProgressRecords == 3

NextProgress ==
    \/ \E body \in ProgressWorkdayBodies :
          Len(workdays) < MaxProgressRecords /\ POST_workdays(users[1], body)
    \/ get_projects_financial_summary(users[1])

SpecProgress == InitFin /\ [][NextProgress]_vars

(***************************************************************************)
(* Ownership                                                               *)
(***************************************************************************)
ListOps ==
    {"get_projects", "get_workers", "get_expenses", "get_incomes", "get_workdays"}

\* The collection a list operation reads.
CollectionOf(op) ==
    CASE op = "get_projects" -> projects
      [] op = "get_workers"  -> workers
      [] op = "get_expenses" -> expenses
      [] op = "get_incomes"  -> incomes
      [] op = "get_workdays" -> workdays

\* C1: every record a list operation or get_project returns to user U has
\* user_id = U's id; no record owned by another user is ever returned.
C1_OwnershipIsolation ==
    /\ resp.op \in ListOps =>
          \A k \in DOMAIN resp.body : resp.body[k].user_id = resp.caller
    /\ (resp.op = "get_project" /\ resp.status = 200) =>
          resp.body.user_id = resp.caller

\* C1 witness: a listing that returned records while the same collection
\* held a record of another user.
C1_Witness ==
    /\ resp.op \in ListOps
    /\ resp.body # <<>>
    /\ \E d \in Range(CollectionOf(resp.op)) : d.user_id # resp.caller

\* The caller of the request just answered owns no project with the id asked.
NoOwnProject(caller, project_id) ==
    ~ \E d \in Range(projects) : d.id = project_id /\ d.user_id = caller

\* C2: get_project and update_project with an id that matches no project, or
\* a project of another user, answer 404 with the same body in both cases,
\* and such an update leaves every stored project unchanged.
C2_NotFoundStep ==
    (resp'.op \in {"get_project", "update_project"}
       /\ NoOwnProject(resp'.caller, resp'.args))
    => /\ resp'.status = 404
       /\ resp'.body = "Project not found"
       /\ projects' = projects

C2_NotFound == [][C2_NotFoundStep]_vars

\* C2 witness: an update refused with 404 although a project with that id
\* exists, owned by another user.
C2_Witness ==
    /\ resp.op = "update_project"
    /\ resp.status = 404
    /\ \E d \in Range(projects) : d.id = resp.args /\ d.user_id # resp.caller

(***************************************************************************)
(* Reports: what the specification says they return                        *)
(***************************************************************************)
FinancialOp == "get_financial_report"
SummaryOp   == "get_projects_financial_summary"

\* The first instants of the calendar month and year holding instant t.
FirstInstantOfMonth(t) == (t \div HoursPerMonth) * HoursPerMonth
FirstInstantOfYear(t)  == (t \div HoursPerYear) * HoursPerYear

\* Record d is dated within the period asked at instant t.
InPeriod(period, d, t) ==
    CASE period = "monthly" -> d.date >= FirstInstantOfMonth(t)
      [] period = "yearly"  -> d.date >= FirstInstantOfYear(t)
      [] OTHER              -> TRUE

\* A project id that restricts a report: one that is given and not empty.
Restricts(project_id) == project_id \notin {None, ""}

\* Record d of the owner matches the filters of a financial report.
Matches(d, owner, period, project_id, t) ==
    /\ d.user_id = owner
    /\ InPeriod(period, d, t)
    /\ Restricts(project_id) => d.project_id = project_id

\* The sum of Val(d) over the records d of a collection that satisfy Keep.
SumOver(coll, Keep(_), Val(_)) ==
    Sum([k \in DOMAIN coll |-> IF Keep(coll[k]) THEN Val(coll[k]) ELSE 0])

\* No expense, income or work day of the owner matches the filters.
NothingMatches(owner, period, project_id, t) ==
    \A d \in Range(expenses) \cup Range(incomes) \cup Range(workdays) :
        ~ Matches(d, owner, period, project_id, t)

ProfitIdentity(b) ==
    b.profit = b.total_incomes - b.total_expenses - b.worker_payments

AllZero(b) ==
    /\ b.total_incomes = 0
    /\ b.total_expenses = 0
    /\ b.worker_payments = 0
    /\ b.profit = 0

\* C3: every financial report and every per-project summary satisfies
\* profit = total_incomes - total_expenses - worker_payments, and all four
\* are 0 when the owner has no matching record.
C3_ProfitIdentity ==
    /\ resp.op = FinancialOp =>
          /\ ProfitIdentity(resp.body)
          /\ NothingMatches(resp.caller, resp.args.period,
                            resp.args.project_id, now) => AllZero(resp.body)
    /\ resp.op = SummaryOp =>
          \A k \in DOMAIN resp.body :
              /\ ProfitIdentity(resp.body[k])
              /\ NothingMatches(resp.caller, None,
                                resp.body[k].project_id, now)
                   => AllZero(resp.body[k])

\* C3 witness: a report in which incomes and worker payments both count and
\* the profit is their difference.
C3_Witness ==
    /\ resp.op = FinancialOp
    /\ resp.body.total_incomes > 0
    /\ resp.body.worker_payments > 0
    /\ resp.body.profit = resp.body.total_incomes - resp.body.worker_payments

\* The owner's worker record an id resolves to, as <<worker>>, or <<>>.
Resolve(owner, worker_id) ==
    LET hits == SelectSeq(workers, LAMBDA w :
                    w.id = worker_id /\ w.user_id = owner)
    IN  IF hits = <<>> THEN <<>> ELSE <<hits[1]>>

\* What a referenced worker is owed for one work-log entry: the payment
\* amount of a daily worker, nothing otherwise.
DailyRate(owner, worker_id) ==
    LET w == Resolve(owner, worker_id)
    IN  IF w # <<>> /\ w[1].payment_type = "daily"
        THEN w[1].payment_amount
        ELSE 0

\* Each worker an entry references counted once for that entry.
OncePerEntry(owner, workday) ==
    Sum([k \in DOMAIN workday.workers |->
            IF \E j \in 1..(k - 1) : workday.workers[j] = workday.workers[k]
            THEN 0
            ELSE DailyRate(owner, workday.workers[k])])

\* Each mention of a worker in an entry counted, repeated or not.
OncePerMention(owner, workday) ==
    Sum([k \in DOMAIN workday.workers |->
            DailyRate(owner, workday.workers[k])])

\* C4: worker_payments is the sum, over the matching work-log entries, of
\* the payment_amount of each daily worker the entry references, counted
\* once per entry even when the entry names the worker more than once;
\* hourly and monthly workers and unresolvable ids count zero.
C4_PaymentsOncePerEntry ==
    /\ resp.op = FinancialOp =>
          resp.body.worker_payments =
              SumOver(workdays,
                      LAMBDA d : Matches(d, resp.caller, resp.args.period,
                                         resp.args.project_id, now),
                      LAMBDA d : OncePerEntry(resp.caller, d))
    /\ resp.op = SummaryOp =>
          \A k \in DOMAIN resp.body :
              resp.body[k].worker_payments =
                  SumOver(workdays,
                          LAMBDA d : Matches(d, resp.caller, None,
                                             resp.body[k].project_id, now),
                          LAMBDA d : OncePerEntry(resp.caller, d))

\* What the code computes instead: a worker named n times in one entry is
\* paid n times for it.
C4_PaymentsOncePerMention ==
    /\ resp.op = FinancialOp =>
          resp.body.worker_payments =
              SumOver(workdays,
                      LAMBDA d : Matches(d, resp.caller, resp.args.period,
                                         resp.args.project_id, now),
                      LAMBDA d : OncePerMention(resp.caller, d))
    /\ resp.op = SummaryOp =>
          \A k \in DOMAIN resp.body :
              resp.body[k].worker_payments =
                  SumOver(workdays,
                          LAMBDA d : Matches(d, resp.caller, None,
                                             resp.body[k].project_id, now),
                          LAMBDA d : OncePerMention(resp.caller, d))

\* The stored project a summary entry is about.
ProjectOf(entry) == CHOOSE d \in Range(projects) : d.id = entry.project_id

\* The percentage of the first of the project's sections named so.
SectionWeight(project, name) ==
    LET j == CHOOSE j \in DOMAIN project.work_sections :
                 /\ project.work_sections[j].name = name
                 /\ \A i \in 1..(j - 1) : project.work_sections[i].name # name
    IN  project.work_sections[j].percentage

HasSection(project, name) ==
    \E j \in DOMAIN project.work_sections : project.work_sections[j].name = name

\* S: the weighted work of the project's work-log entries that name one of
\* its sections.
WeightedWork(project) ==
    SumOver(workdays,
            LAMBDA d : /\ d.user_id = project.user_id
                       /\ d.project_id = project.id
                       /\ HasSection(project, d.work_section),
            LAMBDA d : (d.work_percentage
                          * SectionWeight(project, d.work_section)) \div 100)

Min(a, b) == IF a <= b THEN a ELSE b

\* C5: the progress_percentage of every entry of project_summaries is at
\* most 100.
C5_ProgressAtMost100 ==
    resp.op = SummaryOp =>
        \A k \in DOMAIN resp.body : resp.body[k].progress_percentage <= 100

\* C5 witness: a summary of a project whose work-log entries add up to more
\* than 100.
C5_Witness ==
    /\ resp.op = SummaryOp
    /\ \E k \in DOMAIN resp.body :
          /\ WeightedWork(ProjectOf(resp.body[k])) > 100
          /\ resp.body[k].progress_percentage = 100

\* C6: progress_percentage = min(100, S), S being the sum over the project's
\* work-log entries that name one of its sections of
\* work_percentage * section.percentage / 100; other entries add nothing and
\* a project without sections has progress 0.
C6_ProgressFormula ==
    resp.op = SummaryOp =>
        \A k \in DOMAIN resp.body :
            LET project == ProjectOf(resp.body[k])
            IN  /\ resp.body[k].progress_percentage
                     = Min(100, WeightedWork(project))
                /\ project.work_sections = <<>>
                     => resp.body[k].progress_percentage = 0

\* C6 witness: one entry at 50% on a section weighted 40% gives 20.
C6_Witness ==
    /\ resp.op = SummaryOp
    /\ \E k \in DOMAIN resp.body :
          LET project == ProjectOf(resp.body[k])
              logged  == SelectSeq(workdays, LAMBDA d :
                             d.user_id = project.user_id
                               /\ d.project_id = project.id)
          IN  /\ Len(logged) = 1
              /\ logged[1].work_percentage = 50
              /\ HasSection(project, logged[1].work_section)
              /\ SectionWeight(project, logged[1].work_section) = 40
              /\ resp.body[k].progress_percentage = 20

\* The three totals of a report body are the sums over the owner's records
\* that satisfy Keep (each repeated mention of a worker counted, as the code
\* does).
TotalsAre(b, owner, Keep(_)) ==
    /\ b.total_expenses = SumOver(expenses, Keep, LAMBDA d : d.amount)
    /\ b.total_incomes = SumOver(incomes, Keep, LAMBDA d : d.amount_before_tax)
    /\ b.worker_payments =
           SumOver(workdays, Keep, LAMBDA d : OncePerMention(owner, d))

\* C8 as stated: whenever financial_report is called with a project_id, the
\* three totals come only from the owner's records of that project.
C8_AnyGivenProjectRestricts ==
    (resp.op = FinancialOp /\ resp.args.project_id # None) =>
        TotalsAre(resp.body, resp.caller,
                  LAMBDA d : /\ d.user_id = resp.caller
                             /\ InPeriod(resp.args.period, d, now)
                             /\ d.project_id = resp.args.project_id)

\* C8 amended: when financial_report is called with a non-empty project_id,
\* the three totals come only from the owner's expenses, incomes and
\* work-logs whose project_id equals it; records of another project or of no
\* project add nothing.
C8_NonEmptyProjectRestricts ==
    (resp.op = FinancialOp /\ resp.args.project_id \notin {None, ""}) =>
        TotalsAre(resp.body, resp.caller,
                  LAMBDA d : /\ d.user_id = resp.caller
                             /\ InPeriod(resp.args.period, d, now)
                             /\ d.project_id = resp.args.project_id)

\* C8 witness: a report restricted to a project while the owner also holds
\* an expense of that project and an expense of another or of none.
C8_Witness ==
    /\ resp.op = FinancialOp
    /\ resp.args.project_id \notin {None, ""}
    /\ resp.body.total_expenses > 0
    /\ \E d \in Range(expenses) :
          d.user_id = resp.caller /\ d.project_id # resp.args.project_id

\* The user a response was given to.
UserById(id) == CHOOSE u \in Range(users) : u.id = id

\* The four figures of a report or of a summary entry.
Figures(b) ==
    <<b.total_expenses, b.total_incomes, b.worker_payments, b.profit>>

\* C10: for every project P of the caller, P's entry of project_summaries
\* carries the same total_expenses, total_incomes, worker_payments and profit
\* as financial_report(owner, no period, project_id = P.id).
C10_SummaryEqualsReport ==
    resp.op = SummaryOp =>
        \A P \in Range(projects) :
            P.user_id = resp.caller =>
                \E k \in DOMAIN resp.body :
                    /\ resp.body[k].project_id = P.id
                    /\ Figures(resp.body[k]) =
                         Figures(FinancialReport(UserById(resp.caller), None, P.id))

\* C10 witness: a summary whose entry for a project counts an income while
\* the owner holds an income of another project.
C10_Witness ==
    /\ resp.op = SummaryOp
    /\ \E k \in DOMAIN resp.body :
          /\ resp.body[k].total_incomes > 0
          /\ \E d \in Range(incomes) :
                d.user_id = resp.caller /\ d.project_id # resp.body[k].project_id

\* A step that answers a financial report (the clock stands still while the
\* handler runs; every other request leaves another op in resp).
C9_ReportStep ==
    (resp'.op = FinancialOp /\ now' = now) =>
        TotalsAre(resp'.body, resp'.caller,
                  LAMBDA d : /\ d.user_id = resp'.caller
                             /\ InPeriod(resp'.args.period, d, now)
                             /\ Restricts(resp'.args.project_id)
                                  => d.project_id = resp'.args.project_id)

\* C9: a monthly report counts exactly the owner's records dated on or after
\* the first instant of the month current at request time, a yearly report
\* those dated on or after the first instant of the current year, and a
\* report without period all of them; so a record of an earlier month is no
\* longer counted by the monthly report after the month has rolled over.
C9_PeriodWindows == [][C9_ReportStep]_vars

\* C9 witness: a monthly report that counts nothing of the caller's only
\* expense, which is dated before the current month.
C9_Witness ==
    /\ resp.op = FinancialOp
    /\ resp.args.period = "monthly"
    /\ resp.body.total_expenses = 0
    /\ \E d \in Range(expenses) :
          /\ d.user_id = resp.caller
          /\ d.date < FirstInstantOfMonth(now)
          /\ d.date >= FirstInstantOfYear(now)

\* C7: whatever the number of stored records, a financial report returns
\* total_expenses = the sum of amount over all of the owner's expenses
\* matching the filters, and total_incomes = the sum of amount_before_tax
\* over all of the owner's incomes matching the filters.
C7_TotalsOverAllRecords ==
    resp.op = FinancialOp =>
        /\ resp.body.total_expenses =
             SumOver(expenses,
                     LAMBDA d : Matches(d, resp.caller, resp.args.period,
                                        resp.args.project_id, now),
                     LAMBDA d : d.amount)
        /\ resp.body.total_incomes =
             SumOver(incomes,
                     LAMBDA d : Matches(d, resp.caller, resp.args.period,
                                        resp.args.project_id, now),
                     LAMBDA d : d.amount_before_tax)

(***************************************************************************)
(* Creation                                                                *)
(***************************************************************************)
CreateOps ==
    {"create_project", "create_worker", "create_expense", "create_income",
     "create_workday"}

\* The collection a create operation writes, before and after the step.
WrittenBy(op) ==
    CASE op = "create_project" -> <<projects, projects'>>
      [] op = "create_worker"  -> <<workers, workers'>>
      [] op = "create_expense" -> <<expenses, expenses'>>
      [] op = "create_income"  -> <<incomes, incomes'>>
      [] op = "create_workday" -> <<workdays, workdays'>>

\* The collection a list operation reads, after the step.
ReadBy(op) ==
    CASE op = "get_projects" -> projects'
      [] op = "get_workers"  -> workers'
      [] op = "get_expenses" -> expenses'
      [] op = "get_incomes"  -> incomes'
      [] op = "get_workdays" -> workdays'

\* A successful create (its response is new: it carries a new id) adds
\* exactly one record, the entity returned, with an id no record of the
\* collection had and the caller as owner.
CreateAddsOne ==
    (resp' # resp /\ resp'.op \in CreateOps /\ resp'.status = 200) =>
        LET before == WrittenBy(resp'.op)[1]
            after  == WrittenBy(resp'.op)[2]
        IN  /\ after = Append(before, resp'.body)
            /\ \A k \in DOMAIN before : before[k].id # resp'.body.id
            /\ resp'.body.user_id = resp'.caller

\* Every record the caller owns is in the list returned to them.
ListHasAllOwn ==
    (resp'.op \in ListOps /\ UNCHANGED store) =>
        \A d \in Range(ReadBy(resp'.op)) :
            d.user_id = resp'.caller => d \in Range(resp'.body)

\* A project the caller owns is returned by get.
GetReturnsOwn ==
    (resp'.op = "get_project" /\ UNCHANGED store) =>
        \A d \in Range(projects) :
            (d.user_id = resp'.caller /\ d.id = resp'.args) =>
                (resp'.status = 200 /\ resp'.body = d)

\* C11: each successful create adds exactly one record to its collection,
\* with an id no record of the collection had and the caller's id as
\* user_id, whatever the payload says; the entity returned is the record
\* stored; and the record then appears in the caller's list (a project is
\* also returned by get).
C11_CreateFreshOwnedListed ==
    [][CreateAddsOne /\ ListHasAllOwn /\ GetReturnsOwn]_vars

\* What holds of the creates themselves, with bodies that name an id and an
\* owner of the client's choosing: one record more, fresh id, owned by the
\* caller, returned as stored.
C11_CreateAddsOneOwnedRecord == [][CreateAddsOne]_vars

(***************************************************************************)
(* What the tests ask of the create routes                                 *)
(***************************************************************************)
\* A list of sections as stored or returned carries the entries of the JSON
\* list submitted, in order.
SameSections(kept, sent) ==
    /\ Len(kept) = Len(sent)
    /\ \A k \in DOMAIN sent :
          /\ kept[k].name = sent[k].name.string
          /\ kept[k].percentage = sent[k].percentage.number

\* A step that creates a project from a body with work_additions returns and
\* stores the work_additions (and the work_sections) submitted.
KeepsWorkAdditions ==
    \A cu \in get_current_user, body \in ApiProjectBodies :
        (/\ POST_projects(cu, body)
         /\ resp'.status = 200
         /\ "work_additions" \in DOMAIN body)
        => LET stored == projects'[Len(projects')]
           IN  /\ "work_additions" \in DOMAIN resp'.body
               /\ SameSections(resp'.body.work_additions, body.work_additions)
               /\ SameSections(resp'.body.work_sections, body.work_sections)
               /\ "work_additions" \in DOMAIN stored
               /\ SameSections(stored.work_additions, body.work_additions)

\* C12: a project created with a work_additions list is returned, and
\* stored, with a work_additions list of the same length and entries as
\* submitted, alongside its work_sections.
C12_WorkAdditionsKept == [][KeepsWorkAdditions]_vars

\* before = with_tax / (1 + tax/100) within 0.01, without division:
\* |before * (100 + tax) - 100 * with_tax| < 0.01 * (100 + tax).
BeforeTaxOf(before, with_tax, tax) ==
    LET d == before * (100 + tax) - 100 * with_tax
    IN  /\ 100 * d < 100 + tax
        /\ 100 * (0 - d) < 100 + tax

\* A step that posts an income given as (amount_with_tax, tax_percentage)
\* succeeds, stores the amount before tax and returns amount_with_tax.
DerivesAmountBeforeTax ==
    \A cu \in get_current_user, body \in ApiIncomeBodies :
        (/\ POST_incomes(cu, body)
         /\ {"amount_with_tax", "tax_percentage"} \subseteq DOMAIN body)
        => /\ resp'.status = 200
           /\ incomes' = Append(incomes, resp'.body)
           /\ BeforeTaxOf(resp'.body.amount_before_tax,
                          body.amount_with_tax.number,
                          body.tax_percentage.number)
           /\ "amount_with_tax" \in DOMAIN resp'.body

\* C13: creating an income from (amount_with_tax, tax_percentage) succeeds
\* and stores amount_before_tax = amount_with_tax / (1 + tax_percentage/100)
\* within 0.01 ((29250, 17) gives 25000, (10000, 0) gives 10000); the
\* response also carries amount_with_tax.
C13_AmountBeforeTaxDerived == [][DerivesAmountBeforeTax]_vars

\* A step that posts a street project without floors_count creates it, and
\* a step that posts a work day without floor_number creates it, with
\* floor_number absent or None.
FloorsOnlyForBuildings ==
    /\ \A cu \in get_current_user, body \in ApiProjectBodies :
          (/\ POST_projects(cu, body)
           /\ body.type.string = "street"
           /\ "floors_count" \notin DOMAIN body)
          => /\ resp'.status = 200
             /\ projects' = Append(projects, resp'.body)
    /\ \A cu \in get_current_user, body \in ApiWorkdayBodies :
          (/\ POST_workdays(cu, body)
           /\ "floor_number" \notin DOMAIN body)
          => /\ resp'.status = 200
             /\ workdays' = Append(workdays, resp'.body)
             /\ \/ "floor_number" \notin DOMAIN resp'.body
                \/ resp'.body.floor_number = None

\* C14: a street-type project can be created without floors_count, and a
\* work-log created for it without a floor_number is accepted and returned
\* with floor_number absent or None.
C14_FloorsOnlyForBuildings == [][FloorsOnlyForBuildings]_vars

(***************************************************************************)
(* Validation errors                                                       *)
(***************************************************************************)
\* The fields each payload must carry, and those declared as numbers.
ProjectRequired ==
    {"name", "type", "floors_count", "address", "contact_phone1",
     "total_amount"}
ProjectNumbers == {"floors_count", "total_amount"}
WorkerRequired == {"name", "payment_type", "payment_amount"}
WorkerNumbers  == {"payment_amount"}
ExpenseRequired == {"type", "amount"}
ExpenseNumbers  == {"amount"}
IncomeRequired == {"project_id", "amount_before_tax"}
IncomeNumbers  == {"amount_before_tax"}
WorkdayRequired ==
    {"project_id", "work_section", "floor_number", "work_percentage",
     "workers"}
WorkdayNumbers == {"floor_number", "work_percentage"}

\* A JSON value that is wrongly typed for a number: strictly, any string;
\* otherwise only a string that does not read as a number.
Mistyped(v, strict) ==
    /\ "string" \in DOMAIN v
    /\ strict \/ v.string \notin DOMAIN NumericStrings

\* The body lacks a required field or has a wrongly typed one.
Malformed(body, required, numbers, strict) ==
    \/ ~ (required \subseteq DOMAIN body)
    \/ \E f \in numbers \cap DOMAIN body : Mistyped(body[f], strict)
    \/ /\ "work_sections" \in DOMAIN body
       /\ \E k \in DOMAIN body.work_sections :
             \/ ~ ({"name", "percentage"} \subseteq DOMAIN body.work_sections[k])
             \/ Mistyped(body.work_sections[k].percentage, strict)

\* The percentages of the sections (and additions) of a well-formed body.
PercentageTotal(body) ==
    LET sections  == IF "work_sections" \in DOMAIN body
                     THEN body.work_sections ELSE <<>>
        additions == IF "work_additions" \in DOMAIN body
                     THEN body.work_additions ELSE <<>>
    IN  Sum([k \in DOMAIN sections |-> sections[k].percentage.number])
          + Sum([k \in DOMAIN additions |-> additions[k].percentage.number])

\* The answer to the step's request is a validation error and no collection
\* changed.
Rejected == resp'.status = 422 /\ UNCHANGED store

\* Every malformed body is rejected; a well-formed project body whose
\* percentages do not add up to 100 is not.  (A step that leaves the clock
\* alone answers a request of the caller named in the response.)
ValidationStep(strict) ==
    now' = now =>
    LET cu == UserById(resp'.caller)
    IN
    /\ resp'.op = "create_project" =>
          \A body \in ApiProjectBodies :
              /\ (Malformed(body, ProjectRequired, ProjectNumbers, strict)
                    /\ POST_projects(cu, body))
                 => Rejected
              /\ (~ Malformed(body, ProjectRequired, ProjectNumbers, TRUE)
                    /\ PercentageTotal(body) # 100
                    /\ POST_projects(cu, body))
                 => resp'.status = 200
    /\ resp'.op = "update_project" =>
          \A body \in ApiUpdateBodies, pid \in ApiProjectIdArgs :
              /\ (Malformed(body, ProjectRequired, ProjectNumbers, strict)
                    /\ PUT_projects(cu, pid, body))
                 => Rejected
              /\ (~ Malformed(body, ProjectRequired, ProjectNumbers, TRUE)
                    /\ PercentageTotal(body) # 100
                    /\ PUT_projects(cu, pid, body))
                 => resp'.status # 422
    /\ resp'.op = "create_worker" =>
          \A body \in ApiWorkerBodies :
              (Malformed(body, WorkerRequired, WorkerNumbers, strict)
                 /\ POST_workers(cu, body))
              => Rejected
    /\ resp'.op = "create_expense" =>
          \A body \in ApiExpenseBodies :
              (Malformed(body, ExpenseRequired, ExpenseNumbers, strict)
                 /\ POST_expenses(cu, body))
              => Rejected
    /\ resp'.op = "create_income" =>
          \A body \in ApiIncomeBodies :
              (Malformed(body, IncomeRequired, IncomeNumbers, strict)
                 /\ POST_incomes(cu, body))
              => Rejected
    /\ resp'.op = "create_workday" =>
          \A body \in ApiWorkdayBodies :
              (Malformed(body, WorkdayRequired, WorkdayNumbers, strict)
                 /\ POST_workdays(cu, body))
              => Rejected

\* C15 as stated: a create or update request whose payload lacks a required
\* field or has a wrongly typed field (a JSON string where a number is
\* declared) is rejected with 422 and leaves every collection unchanged; a
\* payload whose section percentages do not sum to 100 is not rejected.
C15_WronglyTypedRejected == [][ValidationStep(TRUE)]_vars

\* C15 amended: a create or update request whose payload lacks a required
\* field or has a field whose value cannot be converted to the declared type
\* (a string that does not read as a number where a number is declared) is
\* rejected with 422 and leaves every collection unchanged; a payload whose
\* section percentages do not sum to 100 is not rejected.
C15_UnconvertibleRejected == [][ValidationStep(FALSE)]_vars

\* C15 witness: an update refused with 422 for a word in floors_count while
\* projects are stored.
C15_Witness ==
    /\ resp.status = 422
    /\ resp.op = "update_project"
    /\ "floors_count" \in DOMAIN resp.args
    /\ resp.args.floors_count = JsonString("three")
    /\ projects # <<>>

(***************************************************************************)
(* Update and the life of a record                                         *)
(***************************************************************************)
\* The number a JSON value submits for a number field.
SubmittedNumber(v) ==
    IF "number" \in DOMAIN v THEN v.number ELSE NumericStrings[v.string]

\* The value submitted for an optional field, None when it is left out.
SubmittedOptional(body, field) ==
    IF field \in DOMAIN body THEN body[field].string ELSE None

\* The project record holds every value the body submits for the payload's
\* fields, and the schema default of every field the body leaves out.
HoldsPayload(project, body) ==
    /\ project.name = body.name.string
    /\ project.type = body.type.string
    /\ project.floors_count = SubmittedNumber(body.floors_count)
    /\ project.address = body.address.string
    /\ project.contact_phone1 = body.contact_phone1.string
    /\ project.total_amount = SubmittedNumber(body.total_amount)
    /\ IF "work_sections" \in DOMAIN body
       THEN SameSections(project.work_sections, body.work_sections)
       ELSE project.work_sections = <<>>
    /\ project.contact_phone2 = SubmittedOptional(body, "contact_phone2")
    /\ project.building_config =
          (IF "building_config" \in DOMAIN body
           THEN body.building_config ELSE None)
    /\ project.street_config =
          (IF "street_config" \in DOMAIN body
           THEN body.street_config ELSE None)

\* A successful update replaces the project in place.
UpdateReplaces ==
    (now' = now /\ resp'.op = "update_project" /\ resp'.status = 200) =>
        \A body \in ApiUpdateBodies, pid \in ApiProjectIdArgs :
            PUT_projects(UserById(resp'.caller), pid, body) =>
                /\ Len(projects') = Len(projects)
                /\ \E k \in DOMAIN projects :
                      /\ projects[k].id = pid
                      /\ projects'[k].id = pid
                      /\ projects'[k].user_id = projects[k].user_id
                      /\ projects'[k].user_id = resp'.caller
                      /\ HoldsPayload(projects'[k], body)
                      /\ projects'[k].status = "active"
                      /\ projects'[k].progress_percentage = 0
                      /\ projects'[k].created_at = now
                      /\ resp'.body = projects'[k]
                      /\ \A j \in DOMAIN projects :
                            j # k => projects'[j] = projects[j]
                /\ UNCHANGED <<users, workers, expenses, incomes, workdays>>

\* C16: a successful update_project(id, payload) by the owner replaces the
\* stored project so that its id and user_id are unchanged, every payload
\* field holds the submitted value, and every field not in the payload
\* (status, progress_percentage, created_at, optional fields left out) holds
\* its schema default rather than its stored value; no other project changes
\* and the number of projects is unchanged.
C16_UpdateReplaces == [][UpdateReplaces]_vars

\* C16 witness: the first of two projects was updated a day after both were
\* created: it carries the new name, no second phone, and the time of the
\* update as created_at, while the second project is as created.
C16_Witness ==
    /\ resp.op = "update_project"
    /\ resp.status = 200
    /\ Len(projects) = 2
    /\ projects[1] = resp.body
    /\ projects[1].created_at > projects[2].created_at
    /\ projects[1].contact_phone2 = None
    /\ projects[2].contact_phone2 # None

\* The ids of the records of a collection.
Ids(coll) == { coll[k].id : k \in DOMAIN coll }

\* Every id present before the step is present after it, in every
\* collection.
NothingRemoved ==
    /\ Ids(users) \subseteq Ids(users')
    /\ Ids(projects) \subseteq Ids(projects')
    /\ Ids(workers) \subseteq Ids(workers')
    /\ Ids(expenses) \subseteq Ids(expenses')
    /\ Ids(incomes) \subseteq Ids(incomes')
    /\ Ids(workdays) \subseteq Ids(workdays')

\* C17: across any sequence of exposed operations no record is ever removed:
\* for each collection, the ids present in one state are present in every
\* later state.
C17_NothingRemoved == [][NothingRemoved]_vars

\* C17 witness: a project was replaced by an update while another project
\* is stored.
C17_Witness ==
    /\ resp.op = "update_project"
    /\ resp.status = 200
    /\ Len(projects) = 2
    /\ \E k \in DOMAIN projects : projects[k] = resp.body

\* An update whose body names a status leaves the project with that status.
StatusFollowsUpdate ==
    (now' = now /\ resp'.op = "update_project" /\ resp'.status = 200) =>
        \A body \in ApiUpdateBodies, pid \in ApiProjectIdArgs :
            (PUT_projects(UserById(resp'.caller), pid, body)
               /\ "status" \in DOMAIN body)
            => \E k \in DOMAIN projects' :
                  /\ projects'[k].id = pid
                  /\ projects'[k].status = body.status.string

\* C18: a project's status can transition: the owner's update that names the
\* status 'completed' leaves the stored project with status 'completed'
\* instead of 'active'.
C18_StatusTransitions == [][StatusFollowsUpdate]_vars

\* What the code does instead: whatever the requests, every stored project
\* has status 'active'.
C18_StatusStaysActive ==
    \A k \in DOMAIN projects : projects[k].status = "active"

(***************************************************************************)
(* Registration and login: what the specification says                     *)
(***************************************************************************)
\* An e-mail that is given: neither absent nor empty.
Given(email) == email \notin {None, ""}

\* The profile collides with a registered user: same username, or same
\* given e-mail.
Conflict(user_data) ==
    \E u \in Range(users) :
        \/ u.username = user_data.username
        \/ Given(user_data.email) /\ u.email = user_data.email

\* A register request that collides fails with the conflict error, hands out
\* no credential and stores nothing; one that does not collide (so, with an
\* absent e-mail, one whose username is free) succeeds and stores the user.
RegisterStep ==
    resp'.op = "register" =>
        /\ Conflict(resp'.args) =>
              /\ resp'.status = 400
              /\ resp'.body = "Username or email already exists"
              /\ users' = users
        /\ ~ Conflict(resp'.args) =>
              /\ resp'.status = 200
              /\ users' = Append(users, resp'.body.user)
              /\ resp'.body.user.username = resp'.args.username
              /\ resp'.body.user.email = resp'.args.email

\* C19: register with a username equal to an existing user's username, or
\* with a non-empty email equal to an existing user's email, fails with the
\* conflict error, issues no credential and leaves the users collection
\* unchanged; register with an absent email conflicts only on the username.
C19_RegisterConflicts == [][RegisterStep]_vars

\* C19 witness: a registration refused for its e-mail alone, its username
\* being free.
C19_Witness ==
    /\ resp.op = "register"
    /\ resp.status = 400
    /\ Given(resp.args.email)
    /\ \E u \in Range(users) : u.email = resp.args.email
    /\ \A u \in Range(users) : u.username # resp.args.username

\* The identifier is the user's own: their username or their given e-mail.
OwnIdentifier(u, identifier) ==
    \/ identifier = u.username
    \/ Given(u.email) /\ identifier = u.email

\* C20: after any sequence of registrations, every registered user can log
\* in with their own username or their own email together with their own
\* password, and the credential returned authenticates as that same user.
C20_OwnLoginAuthenticates ==
    resp.op = "login" =>
        \A u \in Range(users) :
            (/\ OwnIdentifier(u, resp.args.username_or_email)
             /\ verify_password(resp.args.password, u.password_hash))
            => /\ resp.status = 200
               /\ AuthenticatedUser(resp.body.access_token) = <<u>>

\* What holds of login: a credential is only handed out for the password of
\* the user it names, and it authenticates as the user returned.
C20_LoginChecksPassword ==
    (resp.op = "login" /\ resp.status = 200) =>
        /\ verify_password(resp.args.password, resp.body.user.password_hash)
        /\ AuthenticatedUser(resp.body.access_token) = <<resp.body.user>>
        /\ \/ resp.body.user.username = resp.args.username_or_email
           \/ resp.body.user.email = resp.args.username_or_email


(***************************************************************************)
(* Rejected credentials                                                    *)
(***************************************************************************)
\* A bearer string that is malformed, a token past its expiry, one without
\* a user_id, one that names no stored user.
NotAToken(token)   == "invalid" \in DOMAIN token
PastExpiry(token)  == ~ NotAToken(token) /\ token.exp < now
LacksUserId(token) == ~ NotAToken(token) /\ "user_id" \notin DOMAIN token
NamesNoUser(token) ==
    /\ ~ NotAToken(token)
    /\ "user_id" \in DOMAIN token
    /\ \A u \in Range(users) : u.id # token.user_id

\* The answer Unauthorized: status 401 with nothing but the reason.
Unauthorized(r) ==
    /\ r.status = 401
    /\ r.caller = None
    /\ r.body \in {"Token expired", "Invalid token", "User not found"}

\* A request to a protected route with such a credential is answered
\* Unauthorized and changes no collection.
RejectedStep(token) ==
    (resp'.op \in ProtectedOps /\ ProtectedRequest(resp'.op, token)) =>
        (Unauthorized(resp') /\ store' = store)

\* C21: every protected operation called with a credential that is
\* malformed, expired, lacks a user_id, or names a user that does not exist
\* fails with Unauthorized (401), returns no data and leaves every
\* collection unchanged.
C21_BadCredentialUnauthorized ==
    [][ \A token \in Tokens :
          (NotAToken(token) \/ PastExpiry(token) \/ LacksUserId(token)
               \/ NamesNoUser(token)) => RejectedStep(token) ]_vars

\* The same for the credentials that are tokens signed with the server's
\* key: past their expiry, without a user_id, or naming no stored user.
C21_SignedBadCredentialUnauthorized ==
    [][ \A token \in Tokens :
          (PastExpiry(token) \/ LacksUserId(token) \/ NamesNoUser(token))
              => RejectedStep(token) ]_vars


(***************************************************************************)
(* The reports read only                                                   *)
(***************************************************************************)
ReportOps == {"get_financial_report", "get_projects_financial_summary"}

\* A step that is a request for one of the two reports: the handler run for
\* the caller and with the parameters its response records.
ReportRequest ==
    \/ /\ resp'.op = "get_financial_report"
       /\ get_financial_report(UserById(resp'.caller), resp'.args.period,
                               resp'.args.project_id)
    \/ /\ resp'.op = "get_projects_financial_summary"
       /\ get_projects_financial_summary(UserById(resp'.caller))

\* C22: financial_report and project_summaries have no side effects: the
\* contents of all collections (users, projects, workers, expenses, incomes,
\* work-logs) are identical before and after each report request, whatever
\* its parameters.
C22_ReportsReadOnly ==
    [][ ReportRequest =>
            /\ users' = users
            /\ projects' = projects
            /\ workers' = workers
            /\ expenses' = expenses
            /\ incomes' = incomes
            /\ workdays' = workdays ]_vars

\* C22 witness: a summary that reports progress for a project whose stored
\* record shows none.
C22_Witness ==
    /\ resp.op = "get_projects_financial_summary"
    /\ \E k \in DOMAIN resp.body : resp.body[k].progress_percentage > 0
    /\ \A k \in DOMAIN projects : projects[k].progress_percentage = 0


(***************************************************************************)
(* Listings                                                                *)
(***************************************************************************)
\* The records of a collection that belong to an owner, in store order.
OwnedInOrder(coll, owner) == SelectSeq(coll, LAMBDA d : d.user_id = owner)

\* The first n of a sequence (all of it when it has fewer).
Prefix(seq, n) == SubSeq(seq, 1, Min(Len(seq), n))

\* C23: each list operation returns the caller's records in store order and
\* at most 1000 of them: with n records owned by the caller it returns the
\* first min(n, 1000) in store order, with no error when n exceeds 1000.
C23_ListFirstThousandInOrder ==
    resp.op \in ListOps =>
        /\ resp.status = 200
        /\ resp.body = Prefix(OwnedInOrder(CollectionOf(resp.op), resp.caller),
                              1000)

\* C23 witness: a listing of exactly 1000 records for a caller who owns
\* more than 1000.
C23_Witness ==
    /\ resp.op = "get_expenses"
    /\ Len(resp.body) = 1000
    /\ Len(OwnedInOrder(expenses, resp.caller)) > 1000


(***************************************************************************)
(* Uniqueness of usernames and e-mails                                     *)
(***************************************************************************)
\* C24: in every reachable state, including states reached by interleaving
\* the store reads and writes of concurrently executing register requests,
\* no two user records share a username and no two user records share the
\* same non-empty email.
C24_UniqueUsernamesAndEmails ==
    \A i, j \in DOMAIN users :
        i # j =>
            /\ users[i].username # users[j].username
            /\ Truthy(users[i].email) => users[i].email # users[j].email


(***************************************************************************)
(* Concurrent updates: the last replacement wins                           *)
(***************************************************************************)
\* The project with an id in a projects collection.
StoredProject(coll, project_id) == FindOne(coll, [id |-> project_id])[1]

\* Whether a project record carries a payload, field by field.
CarriesPayload(project, project_data) ==
    \A f \in DOMAIN project_data : project[f] = project_data[f]

\* An update in flight that its sender, the owner, sent for a stored
\* project.
OwnersUpdate(request) ==
    /\ request.op = "update_project"
    /\ \E k \in DOMAIN projects :
          /\ projects[k].id = request.project_id
          /\ projects[k].user_id = request.current_user.id

\* When an owner's update applies its replacement it succeeds, and the
\* stored project then carries the whole payload of that update.
LastReplaceWins ==
    \A k \in DOMAIN pending :
        (OwnersUpdate(pending[k]) /\ update_project_replace_one(k)) =>
            /\ resp'.status = 200
            /\ CarriesPayload(StoredProject(projects', pending[k].project_id),
                              pending[k].project_data)
            /\ StoredProject(projects', pending[k].project_id).user_id
                  = pending[k].current_user.id

\* C25: when two update_project requests by the owner for the same project
\* run concurrently with any interleaving of their find and replace steps,
\* both succeed and the finally stored project equals, in all fields
\* supplied by the payload, the payload of the request whose replace was
\* applied last; the stored record is never a mixture of fields from the
\* two payloads.
C25_LastReplaceWins == [][LastReplaceWins]_vars

\* C25 witness: two updates of p1 by its owner with different payloads were
\* in flight together, one has applied its replacement and the other is
\* about to replace what the first stored.
C25_Witness ==
    /\ Len(pending) = 1
    /\ OwnersUpdate(pending[1])
    /\ pending[1].project # <<>>
    /\ resp.op = "update_project"
    /\ resp.status = 200
    /\ resp.body = StoredProject(projects, "p1")
    /\ pending[1].project[1] # StoredProject(projects, "p1")
    /\ ~ CarriesPayload(StoredProject(projects, "p1"), pending[1].project_data)


(***************************************************************************)
(* The validity window of a credential                                     *)
(***************************************************************************)
\* A register or login step that issues a credential: the token embeds the
\* id of the user of the response and the expiry now + 24 hours.
IssuesForWindow ==
    (resp'.op \in {"register", "login"} /\ resp'.status = 200
         /\ now' = now) =>
        resp'.body.access_token =
            [user_id |-> resp'.body.user.id,
             exp     |-> now + JWT_EXPIRATION_HOURS]

\* A protected request that presents a token issued to a stored user: before
\* the expiry it runs as that user, after the expiry it is answered
\* Unauthorized and changes nothing; whatever requests came before.
HonouredUntilExpiry ==
    \A token \in IssuedTokens :
        (resp'.op \in ProtectedOps /\ ProtectedRequest(resp'.op, token)) =>
            /\ now < token.exp =>
                  (resp'.caller = token.user_id /\ resp'.status = 200)
            /\ now > token.exp => (Unauthorized(resp') /\ store' = store)

\* C26: a credential issued by register or login at time t embeds the
\* issuing user's id and an expiry of t plus the validity window (24
\* hours): presented at any time before the expiry it authenticates as
\* exactly the user it was issued to, and presented at any time after the
\* expiry it is rejected with Unauthorized; the window of an issued
\* credential is never extended by later use.
C26_ValidityWindow == [][IssuesForWindow /\ HonouredUntilExpiry]_vars

\* C26 witness: a token issued to a stored user more than 24 hours ago has
\* just been rejected as expired.
C26_Witness ==
    /\ resp.op \in ProtectedOps
    /\ resp.status = 401
    /\ resp.body = "Token expired"
    /\ \E u \in Range(users) : u.created_at + JWT_EXPIRATION_HOURS < now


(***************************************************************************)
(* References across tenants                                               *)
(***************************************************************************)
\* Everything a user can read: the financial reports, overall and for a
\* project of either user, the project summaries and the five listings.
Views(user) ==
    [reports   |-> [pid \in TenantProjectIdArgs |->
                       FinancialReport(user, None, pid)],
     summaries |-> ProjectSummaries(user),
     listings  |-> [op \in ListOps |->
                       ToList(Find(CollectionOf(op), [user_id |-> user.id]),
                              ListCap)]]

\* The work days, expenses and incomes a user recorded that carry the id of
\* another user's project, and the work days that list another user's
\* worker.
CrossProject(d) ==
    \E q \in Range(projects) : q.id = d.project_id /\ q.user_id # d.user_id
CrossWorker(d) ==
    \E w \in Range(workers), k \in DOMAIN d.workers :
        w.id = d.workers[k] /\ w.user_id # d.user_id

\* A request of one user that creates an expense, an income or a work day
\* changes nothing any other user can read.
OthersViewsKept ==
    (resp'.op \in {"create_expense", "create_income", "create_workday"}
         /\ store' # store) =>
        \A other \in Range(users) :
            other.id # resp'.caller => Views(other)' = Views(other)

\* The payments of a report are owed to the caller's own workers only.
OwnWorkersPaid ==
    /\ resp'.op = FinancialOp =>
          resp'.body.worker_payments =
              SumOver(workdays',
                      LAMBDA d : Matches(d, resp'.caller, resp'.args.period,
                                         resp'.args.project_id, now'),
                      LAMBDA d : OncePerMention(resp'.caller, d))
    /\ resp'.op = SummaryOp =>
          \A k \in DOMAIN resp'.body :
              resp'.body[k].worker_payments =
                  SumOver(workdays',
                          LAMBDA d : Matches(d, resp'.caller, None,
                                             resp'.body[k].project_id, now'),
                          LAMBDA d : OncePerMention(resp'.caller, d))

\* C27: cross-tenant references have no effect: an expense, income or
\* work-log created by user A with the project_id of a project owned by user
\* B, or a work-log of A that lists the id of a worker owned by B, never
\* changes any value of B's financial reports, project summaries or
\* listings, and B's worker's payment_amount is never added to A's
\* worker_payments.
C27_CrossTenantNoEffect == [][OthersViewsKept /\ OwnWorkersPaid]_vars

\* C27 witness: a user who recorded a work day on another user's project,
\* listing that user's daily worker, has asked for the financial report.
C27_Witness ==
    /\ resp.op = FinancialOp
    /\ \E d \in Range(workdays) :
          /\ d.user_id = resp.caller
          /\ CrossProject(d)
          /\ CrossWorker(d)
          /\ \E w \in Range(workers), k \in DOMAIN d.workers :
                /\ w.id = d.workers[k]
                /\ w.payment_type = "daily"
                /\ w.user_id # d.user_id


(***************************************************************************)
(* Reports and the states they read                                        *)
(***************************************************************************)
\* The totals of the owner's records as the store held them at a reading of
\* the clock, for a report on a project (or on all).
ExpensesAt(t, owner, project_id) ==
    SumOver(expenses,
            LAMBDA d : d.date <= t /\ Matches(d, owner, None, project_id, t),
            LAMBDA d : d.amount)
IncomesAt(t, owner, project_id) ==
    SumOver(incomes,
            LAMBDA d : d.date <= t /\ Matches(d, owner, None, project_id, t),
            LAMBDA d : d.amount_before_tax)
PaymentsAt(t, owner, project_id) ==
    SumOver(workdays,
            LAMBDA d : d.date <= t /\ Matches(d, owner, None, project_id, t),
            LAMBDA d : OncePerMention(owner, d))

\* The readings whose stores existed while a suspended report was running:
\* the store it started on (that of the reading before, nothing being
\* written at the reading it started at before it) and those since.
ReadingsDuring(request) == (request.started - 1)..now

\* The step that ends a suspended financial report.
ReportEnds(k) ==
    pending[k].op = "get_financial_report" /\ get_financial_report_workers(k)

\* C28: a financial report computed while other requests of the same owner
\* create records is a consistent snapshot: the returned totals equal the
\* totals of some single store state that existed between the start and the
\* end of the report request (the four collection reads of the report are
\* not observably separated by interleaved writes).
C28_ConsistentSnapshot ==
    [][ \A k \in DOMAIN pending :
          ReportEnds(k) =>
              \E t \in ReadingsDuring(pending[k]) :
                  LET owner == pending[k].current_user.id
                      pid == pending[k].project_id
                  IN  /\ resp'.body.total_expenses = ExpensesAt(t, owner, pid)
                      /\ resp'.body.total_incomes = IncomesAt(t, owner, pid)
                      /\ resp'.body.worker_payments
                            = PaymentsAt(t, owner, pid) ]_vars

\* C28 as amended: each of total_expenses and total_incomes is the total of
\* a store state that existed between the start and the end of the request,
\* not necessarily the same state for both, and the profit is that of the
\* returned totals.
C28_EachTotalFromOneState ==
    [][ \A k \in DOMAIN pending :
          ReportEnds(k) =>
              LET owner == pending[k].current_user.id
                  pid == pending[k].project_id
              IN  /\ \E t \in ReadingsDuring(pending[k]) :
                        resp'.body.total_expenses = ExpensesAt(t, owner, pid)
                  /\ \E t \in ReadingsDuring(pending[k]) :
                        resp'.body.total_incomes = IncomesAt(t, owner, pid)
                  /\ ProfitIdentity(resp'.body) ]_vars

\* C28 witness: a report that counts an income and no expense although an
\* expense of the caller is older than every income: it read the expenses
\* before that expense was written and the incomes after.
C28_Witness ==
    /\ resp.op = FinancialOp
    /\ resp.body.total_incomes > 0
    /\ resp.body.total_expenses = 0
    /\ incomes # <<>>
    /\ \E e \in Range(expenses) :
          /\ e.user_id = resp.caller
          /\ \A i \in Range(incomes) : e.date < i.date


(***************************************************************************)
(* The range of the progress                                               *)
(***************************************************************************)
\* C29: for every project and every set of work-log entries that the create
\* operations accept, the progress_percentage returned by project_summaries
\* is at least 0, so that it always lies in the range 0..100.
C29_ProgressAtLeast0 ==
    resp.op = SummaryOp =>
        \A k \in DOMAIN resp.body :
            /\ 0 <= resp.body[k].progress_percentage
            /\ resp.body[k].progress_percentage <= 100


(***************************************************************************)
(* The progress stored on a project                                        *)
(***************************************************************************)
\* The creations that are not of a project.
CreatesBesideProjects ==
    {"create_workday", "create_expense", "create_income", "create_worker"}

\* C30: creating a work-log, expense, income or worker leaves every project
\* record unchanged: in every reachable state the progress_percentage field
\* stored on a project (and returned by get_project and list projects) is
\* 0 whatever work-logs exist, while progress is reported only by
\* project_summaries.
C30_StoredProgressStaysZero ==
    [][ /\ resp'.op \in CreatesBesideProjects => projects' = projects
        /\ \A k \in DOMAIN projects' : projects'[k].progress_percentage = 0
        /\ (resp'.op = "get_project" /\ resp'.status = 200)
              => resp'.body.progress_percentage = 0
        /\ resp'.op = "get_projects"
              => \A k \in DOMAIN resp'.body :
                     resp'.body[k].progress_percentage = 0 ]_vars

\* C30 witness: get_project returns progress 0 for a project whose logged
\* work days weigh more than nothing.
C30_Witness ==
    /\ resp.op = "get_project"
    /\ resp.status = 200
    /\ resp.body.progress_percentage = 0
    /\ \E d \in Range(projects) :
          /\ d.id = resp.body.id
          /\ WeightedWork(d) > 0

=============================================================================
